---------------------------- MODULE Spec2Model ----------------------------
(***************************************************************************)
(* Adaptive Runtime Governor of Sarah (src/src-tauri/src/services).        *)
(*                                                                         *)
(* One module, several specifications over the same variables; each        *)
(* specification drives one component and leaves the others' variables     *)
(* at their constructed values:                                            *)
(*   SpecMem    AdaptiveMemoryManager watchdog (adaptive_memory_manager.rs)*)
(*   SpecInf    InferenceService permit / model slot (inference_service.rs)*)
(*   SpecGov    RuntimeGovernorService + compute_budget                    *)
(*   SpecCls    SmartQueryClassifier (smart_query_classifier.rs)           *)
(*   SpecRoute  TaskRouterService (task_router_service.rs)                 *)
(*                                                                         *)
(* Conventions.  Option<T> is a sequence of length <= 1: <<>> is None,     *)
(* <<x>> is Some(x).  Time is in whole seconds.  f64/f32 quantities are    *)
(* kept as exact rationals over a fixed denominator (percent, hundredths,  *)
(* tenths) and f64::round is round-half-away-from-zero on them.            *)
(***************************************************************************)
EXTENDS Integers, Sequences, FiniteSets, TLC

VARIABLES
    \* ---- clock
    now,                \* Instant::now(), seconds
    \* ---- AdaptiveMemoryManager
    mm_cfg,             \* thresholds and unload_cooldown_secs fixed by the constructor
    enabled,            \* AtomicBool enabled
    stats,              \* what HardwareService::live_stats() currently returns
    last_unload_time,   \* Mutex<Option<Instant>>
    mm_lock,            \* holder of the last_unload_time mutex (0 = free)
    total_unloads,      \* AtomicU64
    total_loads,        \* AtomicU64
    mon,                \* per monitor loop: position inside check_and_manage
    unload_log,         \* history: times of the last two successful unload_model calls
    \* ---- InferenceService
    loaded,             \* Mutex<Option<LoadedModel>>: <<>> or <<[path, last_used_secs]>>
    loaded_lock,        \* holder of the std Mutex around the slot (0 = free)
    permits,            \* Semaphore::new(1): permits available
    calls,              \* per caller: position inside generate_stream / generate_with_tools
    chunks,             \* per caller: what the stream returned last has yielded so far
    auto_unloaders,     \* number of running loops spawned by start_auto_unloader
    \* ---- RuntimeGovernorService / RuntimeOrchestratorService
    policy_rows,        \* runtime_policy_overrides: scope -> Option<policy_json>
    active_tier,        \* RuntimeOrchestratorService.active_tier
    gov,                \* last call of the governor/orchestrator and what it returned
    \* ---- SmartQueryClassifier
    recent_classifications, \* RwLock<Vec<ClassificationRecord>>
    cls,                \* history: the first text classified and every category returned for it
    \* ---- TaskRouterService
    installed,          \* ModelRepo::list_installed()
    decision,           \* Option<RoutingDecision> last returned by route / preview
    routing_events,     \* number of audit rows in routing_events
    route_audit,        \* history: what record_route_event did for the decision in hand
    \* ---- AppState::new / SystemProfile
    profile,            \* SystemProfile returned by detect_hardware
    detected_tier,      \* detected_profile.classify()
    \* ---- PredictivePreloader
    pre_enabled,        \* AtomicBool enabled
    preload_scheduled,  \* AtomicBool preload_scheduled, shared by every clone
    pre_call,           \* per handle: position inside maybe_preload / trigger_preload
    pre_task,           \* per handle: the preload task it has spawned, if any
    pre_log,            \* history: load results of the preload tasks that have ended
    \* ---- HardwareService::live_stats
    last_stats,         \* Arc<Mutex<LiveSystemStats>>, shared by every clone
    last_check,         \* per handle: AtomicU64 last_check, copied by Clone
    hw_call,            \* per thread: position inside live_stats
    poll_log,           \* history: clock readings at the polls of the OS
    \* ---- ConversationService
    conv,               \* history: what the last send_message did and returned
    \* ---- RuntimeOrchestratorService
    plan,               \* Option<OrchestratedRequest> last returned by plan_request
    \* ---- RuntimeGovernorService::set_policy, statement by statement
    policy_version,     \* per scope: the version column of the row (0 = no row)
    sp,                 \* per writer: position inside set_policy and its local next
    \* ---- ConversationService::ensure_model_loaded, statement by statement
    eml                 \* position inside the call, its path and the preload task it spawned

memVars == <<mm_cfg, enabled, stats, last_unload_time, mm_lock, total_unloads,
             total_loads, mon, unload_log>>
infVars == <<loaded, loaded_lock, permits, calls, chunks, auto_unloaders>>
govVars == <<policy_rows, active_tier, gov>>
clsVars == <<recent_classifications, cls>>
rtVars  == <<installed, decision, routing_events, route_audit>>
hwVars  == <<profile, detected_tier>>
preVars == <<pre_enabled, preload_scheduled, pre_call, pre_task, pre_log>>
lsVars  == <<last_stats, last_check, hw_call, poll_log>>
convVars == <<conv>>
orchVars == <<plan>>
polVars == <<policy_version, sp>>
emlVars == <<eml>>
extVars == <<hwVars, preVars, lsVars, convVars, orchVars, polVars, emlVars>>
vars    == <<now, memVars, infVars, govVars, clsVars, rtVars, extVars>>

(***************************************************************************)
(* Bounds of the model.                                                    *)
(***************************************************************************)
MaxTime     == 95     \* the clock stops here
ClockStep   == 5      \* seconds between two readings of the clock
NumMonitors == 2      \* concurrently running monitor loops
NumCallers  == 2      \* concurrent generate_stream / generate_with_tools calls
MaxTokens   == 2      \* opts.max_tokens: pieces one decode sends at most
MaxUnloaders == 1     \* auto-unloader loops running at the same time
MaxIdleClock == 360   \* the clock stops here while the auto-unloader is observed

NumHwThreads == 2     \* threads calling live_stats
MaxPolls    == 3      \* polls of the operating system in one run
MaxPollTime == 10     \* the clock stops here while live_stats is observed
NumHandles  == 2      \* handles of the preloader calling maybe_preload
MaxPreloads == 2      \* maybe_preload calls that get past the first check in one run

Monitors == 1..NumMonitors
Handles  == 1..NumHandles
HwThreads == 1..NumHwThreads
Callers  == 1..NumCallers

None    == <<>>
Some(x) == <<x>>
IsSome(o) == Len(o) = 1
Unwrap(o) == o[1]

Min(a, b) == IF a <= b THEN a ELSE b
Max(a, b) == IF a >= b THEN a ELSE b
\* a slip: only the upper end is enforced
Clamp_upper_only(v, lo, hi) == IF v > hi THEN hi ELSE v

Clamp(v, lo, hi) == IF v < lo THEN lo ELSE IF v > hi THEN hi ELSE v

(***************************************************************************)
(* Clock.                                                                  *)
(***************************************************************************)
Tick ==
    /\ now + ClockStep <= MaxTime
    /\ now' = now + ClockStep
    /\ UNCHANGED <<extVars, memVars, infVars, govVars, clsVars, rtVars>>


(***************************************************************************)
(* InferenceService: the resident-model slot (inference_service.rs).       *)
(***************************************************************************)
ModelPaths == {"a.gguf"}

LoadedModel(path, t) == [path |-> path, last_used_secs |-> t]

\* get_active_model_info: Option<ModelInfo> (only the path identity is kept)
get_active_model_info == IF IsSome(loaded) THEN Some(Unwrap(loaded).path) ELSE None

\* load_model, lines 119-123: the swap of the freshly loaded model into the slot
load_model(path) ==
    /\ loaded_lock = 0
    /\ loaded' = Some(LoadedModel(path, now))

\* unload_model, lines 299-306: *guard = None, Ok(()) whatever the slot held
unload_model ==
    /\ loaded_lock = 0
    /\ loaded' = None

(***************************************************************************)
(* InferenceService: generate_stream / generate_with_tools.                *)
(* A call is [kind, pc, permit, touched]: permit = the call owns the       *)
(* semaphore permit; touched = the call has locked the slot and read or    *)
(* written the resident model (history); result = what the generation      *)
(* closure returned, "none" before it has.                                 *)
(***************************************************************************)
\* Semaphore::new(1), inference_service.rs line 51
limiter_capacity == 1

Call(kind, pc, permit, touched) ==
    [kind |-> kind, pc |-> pc, permit |-> permit, touched |-> touched, result |-> "none"]
CallIdle == Call("none", "idle", FALSE, FALSE)

\* generate_stream lines 162-174: lock the slot; a resident model gets its last-used
\* timestamp stored, no resident model returns Err before any permit is asked for
generate_stream(c) ==
    /\ calls[c].pc = "idle"
    /\ loaded_lock = 0
    /\ IF IsSome(loaded)
       THEN /\ loaded' = Some(LoadedModel(Unwrap(loaded).path, now))
            /\ calls' = [calls EXCEPT ![c] = Call("stream", "acquire", FALSE, TRUE)]
            /\ chunks' = [chunks EXCEPT ![c] = <<>>]
       ELSE /\ calls' = [calls EXCEPT ![c] = CallIdle]
            /\ UNCHANGED <<loaded, chunks, auto_unloaders>>
    /\ UNCHANGED <<extVars, now, memVars, loaded_lock, permits, govVars, clsVars, rtVars, auto_unloaders>>

\* generate_with_tools line 246: the call goes straight to the permit
generate_with_tools(c) ==
    /\ calls[c].pc = "idle"
    /\ calls' = [calls EXCEPT ![c] = Call("tools", "acquire", FALSE, FALSE)]
    /\ UNCHANGED <<extVars, now, memVars, loaded, loaded_lock, permits, govVars, clsVars, rtVars, chunks, auto_unloaders>>

\* a slip: the permit is not waited for, the call goes on without owning one
acquire_owned_not_awaited(c) ==
    /\ calls[c].pc = "acquire"
    /\ calls' = [calls EXCEPT ![c].pc = "spawn"]
    /\ UNCHANGED <<extVars, now, memVars, loaded, loaded_lock, permits, govVars, clsVars, rtVars, chunks, auto_unloaders>>

\* limiter.acquire_owned().await, lines 176-181 and 246-251: suspends while no permit
\* is available
acquire_owned(c) ==
    /\ calls[c].pc = "acquire"
    /\ permits > 0
    /\ permits' = permits - 1
    /\ calls' = [calls EXCEPT ![c].pc = "spawn", ![c].permit = TRUE]
    /\ UNCHANGED <<extVars, now, memVars, loaded, loaded_lock, govVars, clsVars, rtVars, chunks, auto_unloaders>>

\* the spawn_blocking closure, lines 193-198 and 267-272: lock the slot (blocking while
\* another thread holds it); no model -> the lock is dropped and the error path taken
decode_begin(c) ==
    /\ calls[c].pc = "spawn"
    /\ loaded_lock = 0
    /\ IF IsSome(loaded)
       THEN /\ loaded_lock' = c
            /\ calls' = [calls EXCEPT ![c].pc = "decode", ![c].touched = TRUE]
       ELSE /\ UNCHANGED loaded_lock
            /\ calls' = [calls EXCEPT ![c].pc = "finish", ![c].touched = TRUE,
                                      ![c].result = "Err"]
    /\ UNCHANGED <<extVars, now, memVars, loaded, permits, govVars, clsVars, rtVars, chunks, auto_unloaders>>

\* generate_stream's on_token callback, lines 200-218, called by the decode loop of
\* generate_with_llama (lines 418-445, while n_decode < opts.max_tokens) for each piece:
\* tx.blocking_send of a chunk with done: false.  The receiver keeps consuming, so the
\* send returns Ok.  generate_with_tools passes a callback that does nothing.
send_token(c) ==
    /\ calls[c].pc = "decode"
    /\ calls[c].kind = "stream"
    /\ loaded_lock = c
    /\ Len(chunks[c]) < MaxTokens
    /\ chunks' = [chunks EXCEPT ![c] = Append(@, "token")]
    /\ UNCHANGED <<extVars, now, memVars, loaded, loaded_lock, permits, calls, govVars,
                   clsVars, rtVars, auto_unloaders>>

\* generate_with_llama returns: Ok at the end-of-generation token or at max_tokens
\* (lines 418-424), Err from any of its fallible steps; the slot guard is dropped
decode_end(c) ==
    /\ calls[c].pc = "decode"
    /\ loaded_lock = c
    /\ loaded_lock' = 0
    /\ \E result \in {"Ok", "Err"} :
          calls' = [calls EXCEPT ![c].pc = "finish", ![c].result = result]
    /\ UNCHANGED <<extVars, now, memVars, loaded, permits, govVars, clsVars, rtVars, chunks, auto_unloaders>>

\* a slip: the closure returns after the error chunk
last_chunks_return_on_error(result) ==
    IF result = "Err" THEN <<"error">> ELSE <<"done">>

\* generate_stream lines 223-235: what the closure sends once the generation has
\* returned: the "[inference error]" chunk (done: false) on Err, then always the
\* chunk with done: true
last_chunks(result) ==
    IF result = "Err" THEN <<"error", "done">> ELSE <<"done">>

\* lines 223-236 (the last chunks are sent, the closure ends, tx and the permit are
\* dropped) and lines 276-278 (generate_with_tools returns and drops _permit)
release_permit(c) ==
    /\ calls[c].pc = "finish"
    /\ permits' = IF calls[c].permit THEN permits + 1 ELSE permits
    /\ chunks' = IF calls[c].kind = "stream"
                 THEN [chunks EXCEPT ![c] = @ \o last_chunks(calls[c].result)]
                 ELSE chunks
    /\ calls' = [calls EXCEPT ![c] = CallIdle]
    /\ UNCHANGED <<extVars, now, memVars, loaded, loaded_lock, govVars, clsVars, rtVars, auto_unloaders>>

\* load_model with PerformanceMode::Multitasking, lines 119-127: the swap, then
\* start_auto_unloader spawns one more loop
LoadModelMultitasking(path) ==
    /\ auto_unloaders < MaxUnloaders
    /\ load_model(path)
    /\ auto_unloaders' = auto_unloaders + 1
    /\ UNCHANGED <<extVars, now, memVars, loaded_lock, permits, calls, govVars, clsVars,
                   rtVars, chunks>>

\* start_auto_unloader line 136: tokio::time::sleep(60 s) of a running loop
auto_unload_sleep_secs == 60
\* line 143: the idle timeout, now.saturating_sub(last_used) > 300
idle_timeout_secs == 300

auto_unloader_sleep ==
    /\ auto_unloaders > 0
    /\ now + auto_unload_sleep_secs <= MaxIdleClock
    /\ now' = now + auto_unload_sleep_secs
    /\ UNCHANGED <<extVars, memVars, infVars, govVars, clsVars, rtVars>>

\* a slip: the loop empties the slot without taking its mutex
auto_unloader_wake_no_lock ==
    /\ auto_unloaders > 0
    /\ IF IsSome(loaded)
       THEN /\ Max(now - Unwrap(loaded).last_used_secs, 0) > idle_timeout_secs
            /\ loaded' = None
       ELSE UNCHANGED loaded
    /\ auto_unloaders' = auto_unloaders - 1
    /\ UNCHANGED <<extVars, now, memVars, loaded_lock, permits, calls, govVars, clsVars,
                   rtVars, chunks>>

\* start_auto_unloader lines 137-150, one wake-up of a loop that ends it: lock the slot
\* (blocking while another thread holds it); a model idle for more than 300 s is
\* dropped and the loop breaks; an empty slot breaks the loop.  A wake-up that finds a
\* model used more recently changes nothing and sleeps again.
auto_unloader_wake ==
    /\ auto_unloaders > 0
    /\ loaded_lock = 0
    /\ IF IsSome(loaded)
       THEN /\ Max(now - Unwrap(loaded).last_used_secs, 0) > idle_timeout_secs
            /\ loaded' = None
       ELSE UNCHANGED loaded
    /\ auto_unloaders' = auto_unloaders - 1
    /\ UNCHANGED <<extVars, now, memVars, loaded_lock, permits, calls, govVars, clsVars,
                   rtVars, chunks>>

\* InferenceService::unload_model called from outside (watchdog, shutdown)
UnloadModel ==
    /\ IsSome(loaded)
    /\ unload_model
    /\ UNCHANGED <<extVars, now, memVars, loaded_lock, permits, calls, govVars, clsVars, rtVars, chunks, auto_unloaders>>

(***************************************************************************)
(* AdaptiveMemoryManager (adaptive_memory_manager.rs).                     *)
(***************************************************************************)
\* AdaptiveMemoryManager::new: thresholds in hundredths (memory) and percent (cpu)
new ==
    [memory_threshold_high |-> 85, memory_threshold_low |-> 65,
     cpu_threshold_high |-> 85, cpu_threshold_low |-> 50,
     unload_cooldown_secs |-> 30]

\* AdaptiveMemoryManager::with_thresholds: the arguments are clamped, cooldown is 90
with_thresholds(memory_high, memory_low, cpu_high, cpu_low) ==
    [memory_threshold_high |-> Clamp(memory_high, 50, 98),
     memory_threshold_low |-> Clamp(memory_low, 20, 95),
     cpu_threshold_high |-> Clamp(cpu_high, 40, 99),
     cpu_threshold_low |-> Clamp(cpu_low, 10, 90),
     unload_cooldown_secs |-> 90]

\* LiveSystemStats as the watchdog reads it
Stats(cpu, used, total) ==
    [cpu_usage_pct |-> cpu, memory_used_mb |-> used, memory_total_mb |-> total]

\* the telemetry trace offered to the watchdog: memory at 0.84 / 0.86 of the total
\* (straddling the high mark) and a quiet machine below the low thresholds
MemTrace == { Stats(10, 84, 100), Stats(10, 86, 100), Stats(10, 40, 100) }

\* check_and_manage lines 80-90; memory_pct = used / total compared as used*100 vs pct*total
is_high_pressure(s, cfg) ==
    LET mem_high == IF s.memory_total_mb > 0
                    THEN s.memory_used_mb * 100 >= cfg.memory_threshold_high * s.memory_total_mb
                    ELSE 0 >= cfg.memory_threshold_high
    IN  mem_high \/ s.cpu_usage_pct >= cfg.cpu_threshold_high

is_low_pressure(s, cfg) ==
    LET mem_low == IF s.memory_total_mb > 0
                   THEN s.memory_used_mb * 100 <= cfg.memory_threshold_low * s.memory_total_mb
                   ELSE 0 <= cfg.memory_threshold_low
    IN  mem_low /\ s.cpu_usage_pct <= cfg.cpu_threshold_low

\* a plausible slip: the cooldown compared in the wrong unit, so it has always elapsed
in_cooldown_wrong_unit(previous, cooldown_secs) == now - previous < 0

\* maybe_unload_model line 105: previous.elapsed() < Duration::from_secs(cooldown)
in_cooldown(previous, cooldown_secs) == now - previous < cooldown_secs

MonIdle(ret) == [pc |-> "idle", ret |-> ret]
MonAt(pc)    == [pc |-> pc, ret |-> "None"]

\* set_enabled
set_enabled(b) ==
    /\ enabled # b
    /\ enabled' = b
    /\ UNCHANGED <<extVars, now, mm_cfg, stats, last_unload_time, mm_lock, total_unloads,
                   total_loads, mon, unload_log, infVars, govVars, clsVars, rtVars>>

\* the operating system moves; live_stats() returns the new reading
SetStats(s) ==
    /\ stats # s
    /\ stats' = s
    /\ UNCHANGED <<extVars, now, mm_cfg, enabled, last_unload_time, mm_lock, total_unloads,
                   total_loads, mon, unload_log, infVars, govVars, clsVars, rtVars>>

\* check_and_manage lines 74-100: read the telemetry and pick the branch
check_and_manage(m) ==
    /\ mon[m].pc = "idle"
    /\ mon' = [mon EXCEPT ![m] =
                 IF ~enabled THEN MonIdle("None")
                 ELSE IF is_high_pressure(stats, mm_cfg) THEN MonAt("unload_lock")
                 ELSE IF is_low_pressure(stats, mm_cfg) THEN MonAt("load_lock")
                 ELSE MonIdle("None")]
    /\ UNCHANGED <<extVars, now, mm_cfg, enabled, stats, last_unload_time, mm_lock,
                   total_unloads, total_loads, unload_log, infVars, govVars,
                   clsVars, rtVars>>

\* maybe_unload_model lines 103-108: take the mutex, return None inside the cooldown
maybe_unload_lock(m) ==
    /\ mon[m].pc = "unload_lock"
    /\ mm_lock = 0
    /\ IF IsSome(last_unload_time)
          /\ in_cooldown(Unwrap(last_unload_time), mm_cfg.unload_cooldown_secs)
       THEN /\ mon' = [mon EXCEPT ![m] = MonIdle("None")]
            /\ UNCHANGED mm_lock
       ELSE /\ mon' = [mon EXCEPT ![m] = MonAt("unload")]
            /\ mm_lock' = m
    /\ UNCHANGED <<extVars, now, mm_cfg, enabled, stats, last_unload_time, total_unloads,
                   total_loads, unload_log, infVars, govVars, clsVars, rtVars>>

\* maybe_unload_model lines 110-124, under the mutex: nothing resident -> None;
\* otherwise unload_model() is Ok, the timestamp is recorded and the counter bumped
maybe_unload_model(m) ==
    /\ mon[m].pc = "unload"
    /\ loaded_lock = 0
    /\ mm_lock' = 0
    /\ IF IsSome(get_active_model_info)
       THEN /\ unload_model
            /\ last_unload_time' = Some(now)
            /\ total_unloads' = total_unloads + 1
            /\ mon' = [mon EXCEPT ![m] = MonIdle("Unloaded")]
            /\ unload_log' = IF Len(unload_log) = 2 THEN <<unload_log[2], now>>
                             ELSE Append(unload_log, now)
       ELSE /\ mon' = [mon EXCEPT ![m] = MonIdle("None")]
            /\ UNCHANGED <<extVars, loaded, last_unload_time, total_unloads, unload_log, chunks, auto_unloaders>>
    /\ UNCHANGED <<extVars, now, mm_cfg, enabled, stats, total_loads, loaded_lock, permits,
                   calls, govVars, clsVars, rtVars, chunks, auto_unloaders>>

\* a slip: once 30 seconds have passed since the last unload, the manager loads a
\* model itself and counts the load
maybe_load_model_reloads(m) ==
    /\ mon[m].pc = "load_lock"
    /\ mm_lock = 0
    /\ IF IsSome(last_unload_time) /\ in_cooldown(Unwrap(last_unload_time), 30)
       THEN /\ mon' = [mon EXCEPT ![m] = MonIdle("None")]
            /\ UNCHANGED <<loaded, total_loads, chunks, auto_unloaders>>
       ELSE /\ load_model(CHOOSE path \in ModelPaths : TRUE)
            /\ total_loads' = total_loads + 1
            /\ mon' = [mon EXCEPT ![m] = MonIdle("Loaded")]
    /\ UNCHANGED <<extVars, now, mm_cfg, enabled, stats, last_unload_time, mm_lock,
                   total_unloads, unload_log, loaded_lock, permits, calls, govVars,
                   clsVars, rtVars, chunks, auto_unloaders>>

\* maybe_load_model lines 127-138: takes the mutex and returns None on both paths
maybe_load_model(m) ==
    /\ mon[m].pc = "load_lock"
    /\ mm_lock = 0
    /\ mon' = [mon EXCEPT ![m] = MonIdle("None")]
    /\ UNCHANGED <<extVars, now, mm_cfg, enabled, stats, last_unload_time, mm_lock,
                   total_unloads, total_loads, unload_log, infVars, govVars,
                   clsVars, rtVars>>

\* the conversation pipeline (re)loads a model: InferenceService::load_model
LoadModel(path) ==
    /\ load_model(path)
    /\ UNCHANGED <<extVars, now, memVars, loaded_lock, permits, calls, govVars, clsVars, rtVars, chunks, auto_unloaders>>

(***************************************************************************)
(* RuntimeGovernorService (runtime_governor_service.rs) and                *)
(* RuntimeOrchestratorService::compute_budget.                             *)
(* pressure_cpu_pct / pressure_memory_pct are whole percents; memory       *)
(* percentages are compared as used*100 against pct*total.                 *)
(***************************************************************************)
\* impl Default for RuntimePolicy, db/models.rs lines 536-549
DefaultPolicy ==
    [pressure_cpu_pct |-> 82, pressure_memory_pct |-> 85,
     interactive_max_tokens |-> 640, background_max_tokens |-> 256,
     interactive_max_concurrency |-> 1, background_max_concurrency |-> 1,
     retrieval_candidate_limit |-> 36, defer_background_under_pressure |-> TRUE]

\* RuntimePolicyPatch: every field an Option
Patch(cpu, mem, imt, bmt, ic, bc, rl, defer) ==
    [pressure_cpu_pct |-> cpu, pressure_memory_pct |-> mem,
     interactive_max_tokens |-> imt, background_max_tokens |-> bmt,
     interactive_max_concurrency |-> ic, background_max_concurrency |-> bc,
     retrieval_candidate_limit |-> rl, defer_background_under_pressure |-> defer]

\* the patches offered to set_policy: everything far below the clamps, everything
\* far above them, and a partial patch inside the ranges
Patches ==
    { Patch(Some(0), Some(0), Some(0), Some(0), Some(0), Some(0), Some(0), Some(FALSE)),
      Patch(Some(1000), Some(1000), Some(100000), Some(100000), Some(100), Some(100),
            Some(100000), Some(TRUE)),
      Patch(Some(60), None, Some(200), None, Some(2), None, Some(20), None) }

\* a slip: the patched values are stored as given, without the clamps
apply_patch_unclamped(policy, patch) ==
    [f \in DOMAIN policy |-> IF IsSome(patch[f]) THEN Unwrap(patch[f]) ELSE policy[f]]

\* apply_patch, lines 171-196
apply_patch(policy, patch) ==
    LET set(f, lo, hi) == IF IsSome(patch[f]) THEN Clamp(Unwrap(patch[f]), lo, hi)
                          ELSE policy[f]
    IN  [pressure_cpu_pct |-> set("pressure_cpu_pct", 50, 99),
         pressure_memory_pct |-> set("pressure_memory_pct", 50, 99),
         interactive_max_tokens |-> set("interactive_max_tokens", 96, 4096),
         background_max_tokens |-> set("background_max_tokens", 64, 2048),
         interactive_max_concurrency |-> set("interactive_max_concurrency", 1, 4),
         background_max_concurrency |-> set("background_max_concurrency", 1, 4),
         retrieval_candidate_limit |-> set("retrieval_candidate_limit", 8, 128),
         defer_background_under_pressure |->
             IF IsSome(patch.defer_background_under_pressure)
             THEN Unwrap(patch.defer_background_under_pressure)
             ELSE policy.defer_background_under_pressure]

\* runtime_policy_overrides rows: the global row (user_id IS NULL) and one per user
Users  == {"u1"}
Scopes == {"global"} \cup Users
ScopeOf(user) == IF IsSome(user) THEN Unwrap(user) ELSE "global"

\* policy_json: a JSON object is a record of its members; serde writes and expects
\* the camelCase names (rename_all), models.rs lines 523-524
PolicyJsonKeys ==
    {"pressureCpuPct", "pressureMemoryPct", "interactiveMaxTokens",
     "backgroundMaxTokens", "interactiveMaxConcurrency", "backgroundMaxConcurrency",
     "retrievalCandidateLimit", "deferBackgroundUnderPressure"}

\* serde_json::to_string(&next), line 69
to_string(policy) ==
    [pressureCpuPct |-> policy.pressure_cpu_pct,
     pressureMemoryPct |-> policy.pressure_memory_pct,
     interactiveMaxTokens |-> policy.interactive_max_tokens,
     backgroundMaxTokens |-> policy.background_max_tokens,
     interactiveMaxConcurrency |-> policy.interactive_max_concurrency,
     backgroundMaxConcurrency |-> policy.background_max_concurrency,
     retrievalCandidateLimit |-> policy.retrieval_candidate_limit,
     deferBackgroundUnderPressure |-> policy.defer_background_under_pressure]

\* serde_json::from_str::<RuntimePolicy>(raw).ok(), line 56: every member must be
\* there (others are ignored), the usize members must not be negative and the last
\* one must be a boolean
from_str(raw) ==
    IF /\ PolicyJsonKeys \subseteq DOMAIN raw
       /\ raw.pressureCpuPct \in Int /\ raw.pressureMemoryPct \in Int
       /\ raw.interactiveMaxTokens \in Nat /\ raw.backgroundMaxTokens \in Nat
       /\ raw.interactiveMaxConcurrency \in Nat /\ raw.backgroundMaxConcurrency \in Nat
       /\ raw.retrievalCandidateLimit \in Nat
       /\ raw.deferBackgroundUnderPressure \in BOOLEAN
    THEN Some([pressure_cpu_pct |-> raw.pressureCpuPct,
               pressure_memory_pct |-> raw.pressureMemoryPct,
               interactive_max_tokens |-> raw.interactiveMaxTokens,
               background_max_tokens |-> raw.backgroundMaxTokens,
               interactive_max_concurrency |-> raw.interactiveMaxConcurrency,
               background_max_concurrency |-> raw.backgroundMaxConcurrency,
               retrieval_candidate_limit |-> raw.retrievalCandidateLimit,
               defer_background_under_pressure |-> raw.deferBackgroundUnderPressure])
    ELSE None

\* a slip: the global row is read first
get_policy_global_first(user) ==
    LET row == IF IsSome(policy_rows["global"]) \/ ~IsSome(user)
               THEN policy_rows["global"]
               ELSE policy_rows[Unwrap(user)]
        parsed == IF IsSome(row) THEN from_str(Unwrap(row)) ELSE None
    IN  IF IsSome(parsed) THEN Unwrap(parsed) ELSE DefaultPolicy

\* get_policy, lines 28-59: the user's row, else the global row; what does not parse,
\* and no row at all, give the defaults
get_policy(user) ==
    LET row == IF IsSome(user) /\ IsSome(policy_rows[Unwrap(user)])
               THEN policy_rows[Unwrap(user)]
               ELSE policy_rows["global"]
        parsed == IF IsSome(row) THEN from_str(Unwrap(row)) ELSE None
    IN  IF IsSome(parsed) THEN Unwrap(parsed) ELSE DefaultPolicy

\* set_policy, lines 61-106: patch what get_policy resolves, then UPDATE the scope's
\* row or INSERT it when there is none
set_policy(user, patch) ==
    /\ gov.op = "none"
    /\ policy_rows' = [policy_rows EXCEPT ![ScopeOf(user)] =
                          Some(to_string(apply_patch(get_policy(user), patch)))]
    /\ gov' = [op |-> "set_policy", user |-> user,
               ret |-> apply_patch(get_policy(user), patch)]
    /\ UNCHANGED <<extVars, now, memVars, infVars, active_tier, clsVars, rtVars>>

\* get_policy called by a client: always Ok(parsed)
get_policy_call(user) ==
    /\ gov.op = "none"
    /\ gov' = [op |-> "get_policy", user |-> user, result |-> "Ok",
               ret |-> get_policy(user)]
    /\ UNCHANGED <<extVars, now, memVars, infVars, policy_rows, active_tier, clsVars,
                   rtVars>>

\* f64::round of n/d for n >= 0, d > 0
Round(n, d) == (2 * n + d) \div (2 * d)

\* a slip: the policy threshold compared strictly
classify_pressure_strict(s, policy) ==
    LET total == s.memory_total_mb
        used  == IF total = 0 THEN 0 ELSE s.memory_used_mb
        den   == IF total = 0 THEN 1 ELSE total
        cpu   == s.cpu_usage_pct
    IN  IF cpu >= 95 \/ used * 100 >= 93 * den THEN "critical"
        ELSE IF cpu > policy.pressure_cpu_pct
                \/ used * 100 > policy.pressure_memory_pct * den THEN "high"
        ELSE IF cpu >= 70 \/ used * 100 >= 75 * den THEN "warm"
        ELSE "normal"

\* classify_pressure, lines 112-130
classify_pressure(s, policy) ==
    LET total == s.memory_total_mb
        used  == IF total = 0 THEN 0 ELSE s.memory_used_mb
        den   == IF total = 0 THEN 1 ELSE total
        cpu   == s.cpu_usage_pct
    IN  IF cpu >= 95 \/ used * 100 >= 93 * den THEN "critical"
        ELSE IF cpu >= policy.pressure_cpu_pct
                \/ used * 100 >= policy.pressure_memory_pct * den THEN "high"
        ELSE IF cpu >= 70 \/ used * 100 >= 75 * den THEN "warm"
        ELSE "normal"

PressureLevels == {"normal", "warm", "high", "critical"}
Qos            == {"fast", "balanced", "max_quality"}

\* a slip: the floor of 96 put on the result instead of on the budget
tune_generation_floor_on_result(base, policy, qos, pressure, is_background) ==
    LET lane_cap == IF is_background THEN policy.background_max_tokens
                    ELSE policy.interactive_max_tokens
        qos_factor == CASE qos = "fast" -> 72 [] qos = "max_quality" -> 120 [] OTHER -> 100
        pressure_factor == CASE pressure = "critical" -> 40 [] pressure = "high" -> 60
                             [] pressure = "warm" -> 85 [] OTHER -> 100
        budget == Round(lane_cap * qos_factor * pressure_factor, 10000)
    IN  [max_tokens |-> Max(Min(Min(base.max_tokens, lane_cap), budget), 96),
         temperature |-> IF qos = "fast" THEN 10 ELSE base.temperature]

\* a slip: the lane cap is left out of the clamp
tune_generation_no_lane_cap(base, policy, qos, pressure, is_background) ==
    LET lane_cap == IF is_background THEN policy.background_max_tokens
                    ELSE policy.interactive_max_tokens
        qos_factor == CASE qos = "fast" -> 72 [] qos = "max_quality" -> 120 [] OTHER -> 100
        pressure_factor == CASE pressure = "critical" -> 40 [] pressure = "high" -> 60
                             [] pressure = "warm" -> 85 [] OTHER -> 100
        budget == Round(lane_cap * qos_factor * pressure_factor, 10000)
    IN  [max_tokens |-> Min(base.max_tokens, Max(budget, 96)),
         temperature |-> IF qos = "fast" THEN 10 ELSE base.temperature]

\* tune_generation, lines 132-168; the factors are hundredths, temperature hundredths
tune_generation(base, policy, qos, pressure, is_background) ==
    LET lane_cap == IF is_background THEN policy.background_max_tokens
                    ELSE policy.interactive_max_tokens
        qos_factor == CASE qos = "fast" -> 72 [] qos = "max_quality" -> 120 [] OTHER -> 100
        pressure_factor == CASE pressure = "critical" -> 40 [] pressure = "high" -> 60
                             [] pressure = "warm" -> 85 [] OTHER -> 100
        budget == Round(lane_cap * qos_factor * pressure_factor, 10000)
    IN  [max_tokens |-> Min(Min(base.max_tokens, lane_cap), Max(budget, 96)),
         temperature |-> IF qos = "fast" THEN 10 ELSE base.temperature]

\* GenerationOptions (top_p is carried through unchanged and left out)
GenerationOptions(max_tokens) == [max_tokens |-> max_tokens, temperature |-> 20]

DeviceTiers == {"Potato", "Minimal", "Low", "Medium", "High", "Ultra"}

ServiceBudget(imt, bmt, rl, ic, bc) ==
    [interactive_max_tokens |-> imt, background_max_tokens |-> bmt,
     retrieval_candidate_limit |-> rl, interactive_max_concurrency |-> ic,
     background_max_concurrency |-> bc]

\* compute_budget lines 259-302: the per-tier table under the dynamic token ceiling
tier_budget(tier, dynamic_max_tokens) ==
    CASE tier = "Potato"  -> ServiceBudget(Min(dynamic_max_tokens, 128), 64, 4, 1, 1)
      [] tier = "Minimal" -> ServiceBudget(Min(dynamic_max_tokens, 256), 128, 12, 1, 1)
      [] tier = "Low"     -> ServiceBudget(Min(dynamic_max_tokens, 512), 192, 24, 1, 1)
      [] tier = "Medium"  -> ServiceBudget(Min(dynamic_max_tokens, 1024), 320, 48, 2, 1)
      [] tier = "High"    -> ServiceBudget(Min(dynamic_max_tokens, 4096), 1024, 96, 3, 2)
      [] tier = "Ultra"   -> ServiceBudget(Min(dynamic_max_tokens, 16384), 4096, 256, 5, 4)

\* a slip: the pressure factors of the two middle levels swapped
budget_factor_swapped(pressure) ==
    CASE pressure = "critical" -> 5 [] pressure = "high" -> 9
      [] pressure = "warm" -> 7 [] OTHER -> 10

\* compute_budget lines 307-312, in tenths
budget_factor(pressure) ==
    CASE pressure = "critical" -> 5 [] pressure = "high" -> 7
      [] pressure = "warm" -> 9 [] OTHER -> 10

\* a slip: the interactive budget loses its floor of 96
compute_budget_no_floor(tier, policy, s) ==
    LET free_ram_mb == IF s.memory_total_mb >= s.memory_used_mb
                       THEN s.memory_total_mb - s.memory_used_mb ELSE 0
        dynamic_max_tokens == 512 + (free_ram_mb \div 1024) * 100
        tb == tier_budget(tier, dynamic_max_tokens)
        pressure == classify_pressure(s, policy)
        factor == budget_factor(pressure)
    IN  ServiceBudget(
            Min(Round(tb.interactive_max_tokens * factor, 10),
                policy.interactive_max_tokens),
            Max(Min(Round(tb.background_max_tokens * factor, 10),
                    policy.background_max_tokens), 64),
            Min(IF pressure = "critical" THEN Min(tb.retrieval_candidate_limit, 3)
                ELSE tb.retrieval_candidate_limit, policy.retrieval_candidate_limit),
            Max(Min(tb.interactive_max_concurrency, policy.interactive_max_concurrency), 1),
            Max(Min(tb.background_max_concurrency, policy.background_max_concurrency), 1))

\* compute_budget, lines 252-347, for the telemetry reading s
compute_budget(tier, policy, s) ==
    LET free_ram_mb == IF s.memory_total_mb >= s.memory_used_mb
                       THEN s.memory_total_mb - s.memory_used_mb ELSE 0
        dynamic_max_tokens == 512 + (free_ram_mb \div 1024) * 100
        tb == tier_budget(tier, dynamic_max_tokens)
        pressure == classify_pressure(s, policy)
        factor == budget_factor(pressure)
        dynamic_retrieval_limit ==
            IF pressure = "critical" THEN Min(tb.retrieval_candidate_limit, 3)
            ELSE tb.retrieval_candidate_limit
    IN  ServiceBudget(
            Max(Min(Round(tb.interactive_max_tokens * factor, 10),
                    policy.interactive_max_tokens), 96),
            Max(Min(Round(tb.background_max_tokens * factor, 10),
                    policy.background_max_tokens), 64),
            Min(dynamic_retrieval_limit, policy.retrieval_candidate_limit),
            Max(Min(tb.interactive_max_concurrency, policy.interactive_max_concurrency), 1),
            Max(Min(tb.background_max_concurrency, policy.background_max_concurrency), 1))

\* telemetry readings offered to the budget: four memory fills that all leave
\* 4096 MB free (50%, 75%, 90%, 93.75% used), a nearly idle 64 GB machine, and a
\* reading without a memory total, each under four CPU loads
GovStats ==
    { Stats(cpu, m[1], m[2]) :
        cpu \in {10, 75, 90, 97},
        m \in {<<4096, 8192>>, <<12288, 16384>>, <<36864, 40960>>, <<61440, 65536>>,
               <<2048, 65536>>, <<0, 0>>} }

FreeRam(s) == IF s.memory_total_mb >= s.memory_used_mb
              THEN s.memory_total_mb - s.memory_used_mb ELSE 0

\* get_runtime_profile, lines 201-220: policy, budget and pressure of one snapshot; the
\* budget and the pressure line each read the telemetry on their own
get_runtime_profile(user) ==
    /\ gov.op = "none"
    /\ \E s \in GovStats, s2 \in {g \in GovStats : g.memory_total_mb = 8192} :
        LET policy == get_policy(user)
        IN  /\ gov' = [op |-> "get_runtime_profile", user |-> user, stats |-> s,
                       service_budget |-> compute_budget(active_tier, policy, s),
                       pressure_level |-> classify_pressure(s2, policy)]
            /\ UNCHANGED <<extVars, now, memVars, infVars, policy_rows, active_tier, clsVars, rtVars>>

\* tune_generation called with the policy get_policy resolves for the user
tune_generation_call(user, base, qos, pressure, is_background) ==
    /\ gov.op = "none"
    /\ gov' = [op |-> "tune_generation", user |-> user, base |-> base, qos |-> qos,
               pressure |-> pressure, is_background |-> is_background,
               ret |-> tune_generation(base, get_policy(user), qos, pressure, is_background)]
    /\ UNCHANGED <<extVars, now, memVars, infVars, policy_rows, active_tier, clsVars, rtVars>>

\* classify_pressure called with the policy get_policy resolves for the user
classify_pressure_call(user, s) ==
    /\ gov.op = "none"
    /\ gov' = [op |-> "classify_pressure", user |-> user, stats |-> s,
               ret |-> classify_pressure(s, get_policy(user))]
    /\ UNCHANGED <<extVars, now, memVars, infVars, policy_rows, active_tier, clsVars, rtVars>>

\* the caller takes the returned value; the service is ready for the next call
gov_return ==
    /\ gov.op # "none"
    /\ gov' = [op |-> "none"]
    /\ UNCHANGED <<extVars, now, memVars, infVars, policy_rows, active_tier, clsVars, rtVars>>

(***************************************************************************)
(* SmartQueryClassifier (smart_query_classifier.rs).                       *)
(*                                                                         *)
(* A query is a list of whitespace-separated words followed by a number of *)
(* filler words that hold no keyword and no operator character.  A keyword *)
(* is a list of words ("in short" is two), found in the query when its     *)
(* words appear next to each other.  Scores are in tenths.                 *)
(***************************************************************************)
MaxCalls == 3      \* classify calls in one run

QueryCategory == {"simple", "medium", "complex", "code", "math", "creative",
                  "analytical", "summarization", "translation"}

Query(words, filler) == [words |-> words, filler |-> filler]

\* str::to_lowercase, line 84, word by word
Lower(w) ==
    CASE w = "DEBUG" -> "debug"
      [] w = "Solve" -> "solve"
      [] OTHER -> w

to_lowercase(words) == [i \in 1..Len(words) |-> Lower(words[i])]

\* keywords found inside one (lower-case) word by str::contains
KeywordsIn(w) ==
    CASE w = "stacktrace" -> {"stack", "trace", "stacktrace"}
      [] w = "javascript" -> {"java", "javascript"}
      [] w = "analyze" -> {"analy", "analyze"}
      [] OTHER -> {w}

\* str::contains for a keyword of one or more words
contains(q, keyword) ==
    IF Len(keyword) = 1
    THEN \E i \in 1..Len(q) : keyword[1] \in KeywordsIn(q[i])
    ELSE \E i \in 1..(Len(q) - Len(keyword) + 1) :
            SubSeq(q, i, i + Len(keyword) - 1) = keyword

\* split_whitespace().count(), line 85
word_count(query) == Len(query.words) + query.filler

\* the characters of one word that are one of + - * / =, lines 194-197
OperatorChars(w) ==
    CASE w = "a+b=c-d" -> 3
      [] w = "x=1" -> 1
      [] w = "=>" -> 1
      [] w = "a/b" -> 1
      [] OTHER -> 0

RECURSIVE SumOperatorChars(_)
SumOperatorChars(words) ==
    IF words = <<>> THEN 0
    ELSE OperatorChars(Head(words)) + SumOperatorChars(Tail(words))

\* the keyword tables of classify, lines 88-183
CodeKeywords ==
    {<<"debug">>, <<"error">>, <<"stack">>, <<"trace">>, <<"function">>, <<"class">>,
     <<"compile">>, <<"refactor">>, <<"rust">>, <<"typescript">>, <<"python">>, <<"java">>}
MathKeywords ==
    {<<"calculate">>, <<"equation">>, <<"integral">>, <<"derivative">>, <<"matrix">>,
     <<"probability">>, <<"statistics">>, <<"solve">>}
AnalyticalKeywords ==
    {<<"analyze">>, <<"evaluate">>, <<"compare">>, <<"tradeoff">>, <<"reason">>,
     <<"architecture">>, <<"strategy">>, <<"optimize">>}
CreativeKeywords ==
    {<<"story">>, <<"poem">>, <<"creative">>, <<"imagine">>, <<"compose">>, <<"draft">>,
     <<"brainstorm">>}
SummarizationKeywords ==
    {<<"summarize">>, <<"summary">>, <<"tldr">>, <<"tl;dr">>, <<"in", "short">>,
     <<"brief">>, <<"outline">>}
TranslationKeywords ==
    {<<"translate">>, <<"in", "spanish">>, <<"in", "french">>, <<"in", "german">>,
     <<"in", "english">>, <<"meaning", "of">>}

\* score_keywords, lines 294-308: the number of keywords found times the weight; the
\* category gets an entry only when at least one keyword is found
score_keywords(q, keywords, weight) ==
    Cardinality({k \in keywords : contains(q, k)}) * weight

\* lines 185-190: a fence of three backticks (written "~~~" here), =>, :: anywhere, or
\* fn / let with a space on both sides
has_code_marker(query) ==
    LET q == to_lowercase(query.words)
        spaced(w) == \E i \in 1..Len(q) :
                        /\ q[i] = w
                        /\ i > 1
                        /\ (i < Len(q) \/ query.filler > 0)
    IN  \/ \E i \in 1..Len(q) : q[i] \in {"~~~", "=>", "::"}
        \/ spaced("fn")
        \/ spaced("let")


\* the score map built by classify, lines 87-209, in tenths; a category has an entry in
\* the HashMap exactly when its score here is positive
scores(query) ==
    LET q  == to_lowercase(query.words)
        wc == word_count(query)
    IN  [c \in QueryCategory |->
           CASE c = "code" ->
                    score_keywords(q, CodeKeywords, 20)
                    + (IF has_code_marker(query) THEN 30 ELSE 0)
             [] c = "math" ->
                    score_keywords(q, MathKeywords, 18)
                    + (IF SumOperatorChars(query.words) >= 3 THEN 20 ELSE 0)
             [] c = "analytical"    -> score_keywords(q, AnalyticalKeywords, 14)
             [] c = "creative"      -> score_keywords(q, CreativeKeywords, 12)
             [] c = "summarization" -> score_keywords(q, SummarizationKeywords, 30)
             [] c = "translation"   -> score_keywords(q, TranslationKeywords, 25)
             [] c = "simple"  -> IF wc < 10 THEN 10 ELSE 0
             [] c = "complex" -> IF wc >= 10 /\ wc > 80 THEN 20 ELSE 0
             [] c = "medium"  -> IF wc >= 10 /\ wc <= 80 /\ wc > 35 THEN 10 ELSE 0]

\* lines 211-225: max_by over scores.into_iter() returns the last entry, in the
\* iteration order of the HashMap, among those with the top score.  The order of a
\* std HashMap is unspecified and differs from one map to the next (RandomState), so
\* every category with the top score is a possible result; with no entry at all the
\* result is the default by word count.
classify_results(query) ==
    LET sc      == scores(query)
        entries == {c \in QueryCategory : sc[c] > 0}
    IN  IF entries = {}
        THEN {IF word_count(query) < 8 THEN "simple" ELSE "medium"}
        ELSE {c \in entries : \A d \in entries : sc[d] <= sc[c]}

ClassificationRecord(category, observed_at) ==
    [category |-> category, observed_at |-> observed_at]

\* a slip: the trim happens before the push and keeps the oldest records
store_keep_oldest(recent, category) ==
    LET kept == IF Len(recent) >= 256 THEN SubSeq(recent, 1, 192) ELSE recent
    IN  Append(kept, ClassificationRecord(category, now))

\* store, lines 275-286: push, and past 256 entries keep the newest 192
store(recent, category) ==
    LET pushed == Append(recent, ClassificationRecord(category, now))
    IN  IF Len(pushed) > 256
        THEN SubSeq(pushed, (Len(pushed) - 192) + 1, Len(pushed))
        ELSE pushed

\* the queries put to the classifier
QueryWords ==
    {<<>>, <<"hello">>, <<"DEBUG">>, <<"DEBUG", "a+b=c-d">>, <<"Solve", "x=1">>,
     <<"analyze">>, <<"poem">>, <<"in", "short">>, <<"translate">>, <<"x", "fn", "y">>,
     <<"stacktrace">>, <<"a+b=c-d">>}
Fillers == {0, 20, 40, 90}
Queries == {Query(w, f) : w \in QueryWords, f \in Fillers}

\* classify, lines 83-229: compute the category, store it, return it
classify(query) ==
    /\ cls.n < MaxCalls
    /\ \E category \in classify_results(query) :
        /\ recent_classifications' = store(recent_classifications, category)
        /\ cls' = IF cls.query = None
                  THEN [n |-> cls.n + 1, query |-> Some(query), categories |-> {category}]
                  ELSE IF cls.query = Some(query)
                  THEN [cls EXCEPT !.n = @ + 1, !.categories = @ \cup {category}]
                  ELSE [cls EXCEPT !.n = @ + 1]
    /\ UNCHANGED <<extVars, now, memVars, infVars, govVars, rtVars>>

(***************************************************************************)
(* TaskRouterService (task_router_service.rs).                             *)
(***************************************************************************)
MaxRouteEvents == 2     \* audit rows written in one run

\* db::models::Model, the columns the router reads
Model(id, display_name, context_length, performance_tier, is_default) ==
    [id |-> id, display_name |-> display_name, context_length |-> context_length,
     performance_tier |-> performance_tier, is_default |-> is_default]

\* the rows of the models table, listed by display_name ASC
ModelRows ==
    << Model("m4", "Alpha",   2048, "balanced", 0),
       Model("m1", "Bravo",   4096, "fast",     0),
       Model("m3", "Charlie", 8192, "quality",  0),
       Model("m5", "Delta",   4096, "fast",     0),
       Model("m2", "Echo",    8192, "balanced", 0) >>

ModelIds == {ModelRows[i].id : i \in 1..Len(ModelRows)}

\* list_installed, model_repo.rs line 254: the downloaded rows ORDER BY is_default
\* DESC, display_name ASC; default_id is the row set_default has marked, if any
list_installed(downloaded, default_id) ==
    LET marked   == [i \in 1..Len(ModelRows) |->
                       [ModelRows[i] EXCEPT
                          !.is_default = IF Some(ModelRows[i].id) = default_id
                                         THEN 1 ELSE 0]]
        IsDefault(row) == row.id \in downloaded /\ row.is_default = 1
        IsOther(row)   == row.id \in downloaded /\ row.is_default = 0
    IN  SelectSeq(marked, IsDefault) \o SelectSeq(marked, IsOther)

InstalledLists ==
    {list_installed(d, def) :
        d \in SUBSET ModelIds, def \in {None} \cup {Some(id) : id \in ModelIds}}

\* value.trim().to_lowercase(), lines 157 and 166
trim_to_lowercase(value) ==
    CASE value = " Reasoning " -> "reasoning"
      [] value = "FAST" -> "fast"
      [] value = "Code" -> "code"
      [] OTHER -> value

\* normalize_task_type, lines 156-163
normalize_task_type(value) ==
    IF trim_to_lowercase(value) \in
          {"chat", "code", "reasoning", "retrieval_heavy", "tool_heavy"}
    THEN trim_to_lowercase(value)
    ELSE "chat"

\* normalize_qos, lines 165-170
normalize_qos(value) ==
    IF trim_to_lowercase(value) \in {"fast", "balanced", "max_quality"}
    THEN trim_to_lowercase(value)
    ELSE "balanced"

\* infer_task_type, lines 172-195
infer_task_type(content) ==
    LET q == to_lowercase(content.words)
        any(keywords) == \E k \in keywords : contains(q, k)
    IN  IF any({<<"debug">>, <<"error">>, <<"stack", "trace">>, <<"refactor">>})
        THEN "code"
        ELSE IF any({<<"analy">>, <<"reason">>, <<"compare">>, <<"tradeoff">>})
        THEN "reasoning"
        ELSE IF any({<<"document">>, <<"source">>, <<"citation">>})
        THEN "retrieval_heavy"
        ELSE IF any({<<"tool">>, <<"calendar">>, <<"spotify">>, <<"run">>})
        THEN "tool_heavy"
        ELSE "chat"

\* default_qos, lines 197-203
default_qos(task_type) ==
    CASE task_type = "reasoning" -> "max_quality"
      [] task_type = "tool_heavy" -> "fast"
      [] OTHER -> "balanced"

\* base_max_tokens, lines 205-213
base_max_tokens(task_type) ==
    CASE task_type = "reasoning" -> 1024
      [] task_type = "code" -> 768
      [] task_type = "retrieval_heavy" -> 640
      [] task_type = "tool_heavy" -> 384
      [] OTHER -> 512


\* Iterator::find over the rows that pass a test, and slice::first: the first row
first(rows) == IF rows = <<>> THEN None ELSE Some(rows[1])

\* Iterator::max_by_key: of the rows with the largest key, the last one
max_by_key_context_length(rows) ==
    IF rows = <<>> THEN None
    ELSE LET top == CHOOSE i \in 1..Len(rows) :
                       /\ \A j \in 1..Len(rows) :
                             rows[j].context_length <= rows[i].context_length
                       /\ \A j \in (i + 1)..Len(rows) :
                             rows[j].context_length < rows[i].context_length
         IN  Some(rows[top])

IsDefaultRow(row) == row.is_default = 1
IsFastRow(row)    == row.performance_tier = "fast"
IsNotFastRow(row) == row.performance_tier # "fast"

\* a slip: the ladder ends on the default row only
select_model_no_first(rows, task_type, qos) ==
    IF rows = <<>> THEN None
    ELSE IF IsSome(first(SelectSeq(rows, IsDefaultRow))) /\ qos = "balanced" /\ task_type = "chat"
    THEN first(SelectSeq(rows, IsDefaultRow))
    ELSE IF qos = "fast" /\ IsSome(first(SelectSeq(rows, IsFastRow)))
    THEN first(SelectSeq(rows, IsFastRow))
    ELSE IF (qos = "max_quality" \/ task_type = "reasoning")
            /\ IsSome(max_by_key_context_length(SelectSeq(rows, IsNotFastRow)))
    THEN max_by_key_context_length(SelectSeq(rows, IsNotFastRow))
    ELSE first(SelectSeq(rows, IsDefaultRow))

\* a slip: the marked default wins for every qos and task
select_model_default_always(rows, task_type, qos) ==
    IF rows = <<>> THEN None
    ELSE IF IsSome(first(SelectSeq(rows, IsDefaultRow)))
    THEN first(SelectSeq(rows, IsDefaultRow))
    ELSE IF qos = "fast" /\ IsSome(first(SelectSeq(rows, IsFastRow)))
    THEN first(SelectSeq(rows, IsFastRow))
    ELSE IF (qos = "max_quality" \/ task_type = "reasoning")
            /\ IsSome(max_by_key_context_length(SelectSeq(rows, IsNotFastRow)))
    THEN max_by_key_context_length(SelectSeq(rows, IsNotFastRow))
    ELSE first(rows)

\* select_model, lines 215-251
select_model(rows, task_type, qos) ==
    IF rows = <<>> THEN None
    ELSE IF IsSome(first(SelectSeq(rows, IsDefaultRow))) /\ qos = "balanced" /\ task_type = "chat"
    THEN first(SelectSeq(rows, IsDefaultRow))
    ELSE IF qos = "fast" /\ IsSome(first(SelectSeq(rows, IsFastRow)))
    THEN first(SelectSeq(rows, IsFastRow))
    ELSE IF (qos = "max_quality" \/ task_type = "reasoning")
            /\ IsSome(max_by_key_context_length(SelectSeq(rows, IsNotFastRow)))
    THEN max_by_key_context_length(SelectSeq(rows, IsNotFastRow))
    ELSE IF IsSome(first(SelectSeq(rows, IsDefaultRow)))
    THEN first(SelectSeq(rows, IsDefaultRow))
    ELSE first(rows)

\* Iterator::take(3)
take3(ids) == SubSeq(ids, 1, Min(3, Len(ids)))

\* a slip: the selected row is not filtered out
fallback_chain_unfiltered(rows, selected) ==
    take3([i \in 1..Len(rows) |-> rows[i].id])

\* fallback_chain, lines 253-260
fallback_chain(rows, selected) ==
    LET Keep(row) == IF IsSome(selected) THEN Unwrap(selected) # row.id ELSE TRUE
        kept == SelectSeq(rows, Keep)
    IN  take3([i \in 1..Len(kept) |-> kept[i].id])

map_id(m)           == IF IsSome(m) THEN Some(Unwrap(m).id) ELSE None
map_display_name(m) == IF IsSome(m) THEN Some(Unwrap(m).display_name) ELSE None

\* the RoutingDecision built by route (lines 38-78) and by preview (lines 93-123) from
\* the arguments, the telemetry s read by current_stats and the installed rows
RoutingDecision(user_id, content, task_type, qos, is_background, s, reason_preview) ==
    LET task == IF IsSome(task_type) THEN normalize_task_type(Unwrap(task_type))
                ELSE infer_task_type(content)
        requested_qos == IF IsSome(qos) THEN normalize_qos(Unwrap(qos))
                         ELSE default_qos(task)
        policy   == get_policy(Some(user_id))
        pressure == classify_pressure(s, policy)
        selected == select_model(installed, task, requested_qos)
        tuned    == tune_generation(GenerationOptions(base_max_tokens(task)), policy,
                                    requested_qos, pressure, is_background)
        chain    == fallback_chain(installed, map_id(selected))
    IN  [task_type |-> task,
         qos |-> requested_qos,
         selected_model_id |-> map_id(selected),
         selected_model_name |-> map_display_name(selected),
         max_tokens |-> tuned.max_tokens,
         pressure_level |-> pressure,
         reason |-> IF reason_preview THEN <<"preview">>
                    ELSE <<task, requested_qos, pressure, Len(chain)>>,
         fallback_chain |-> chain]

\* route, lines 29-84: the decision, then the audit row, whose failure is dropped
route(user_id, content, task_type, qos, is_background, s, recorded) ==
    /\ decision' = Some(RoutingDecision(user_id, content, task_type, qos,
                                        is_background, s, FALSE))
    /\ routing_events' = IF recorded THEN routing_events + 1 ELSE routing_events
    /\ route_audit' = IF recorded THEN "written" ELSE "failed"
    /\ UNCHANGED <<extVars, now, memVars, infVars, govVars, clsVars, installed>>

\* a slip: the preview writes the audit row as route does
preview_recorded(user_id, content, task_type, qos, s) ==
    /\ decision' = Some(RoutingDecision(user_id, content, task_type, qos, FALSE, s, TRUE))
    /\ routing_events' = routing_events + 1
    /\ route_audit' = "written"
    /\ UNCHANGED <<extVars, now, memVars, infVars, govVars, clsVars, installed>>

\* preview, lines 86-124: the same decision for the interactive lane, no audit row
preview(user_id, content, task_type, qos, s) ==
    /\ decision' = Some(RoutingDecision(user_id, content, task_type, qos, FALSE, s, TRUE))
    /\ UNCHANGED <<extVars, now, memVars, infVars, govVars, clsVars, installed, routing_events,
                   route_audit>>

\* the caller takes the decision; the router is ready for the next request
route_return ==
    /\ decision # None
    /\ decision' = None
    /\ route_audit' = "none"
    /\ UNCHANGED <<extVars, now, memVars, infVars, govVars, clsVars, installed, routing_events>>

(***************************************************************************)
(* SystemProfile::classify (hardware_service.rs) and the tiers AppState    *)
(* hands to the orchestrator (state.rs).                                   *)
(***************************************************************************)
\* db::models::SystemProfile, the columns classify reads
SystemProfile(total_ram_mb, cpu_threads, gpu_vram_mb, gpu_backend, supports_avx2, supports_avx512) ==
    [total_ram_mb |-> total_ram_mb, cpu_threads |-> cpu_threads,
     gpu_vram_mb |-> gpu_vram_mb, gpu_backend |-> gpu_backend,
     supports_avx2 |-> supports_avx2, supports_avx512 |-> supports_avx512]

\* lines 54-60: the VRAM classify works with
classify_vram(p) ==
    LET vram == IF IsSome(p.gpu_vram_mb) THEN Unwrap(p.gpu_vram_mb) ELSE 0
    IN  IF IsSome(p.gpu_backend)
           /\ (Unwrap(p.gpu_backend) = "metal"
               \/ (Unwrap(p.gpu_backend) = "cuda" /\ vram = 0))
        THEN p.total_ram_mb \div 2
        ELSE vram

\* lines 45-65: total = (ram_score*0.35 + cpu_score*0.25 + gpu_score*0.40) * 100, here
\* multiplied by 2048000, the common denominator of 64000, 1600 and 16384
classify_total(p) ==
    LET avx_bonus == IF p.supports_avx512 > 0 THEN 120
                     ELSE IF p.supports_avx2 > 0 THEN 105 ELSE 100
        ram == Min(p.total_ram_mb, 64000)
        cpu == Min(Min(p.cpu_threads, 16) * avx_bonus, 1600)
        gpu == Min(classify_vram(p), 16384)
    IN  35 * ram * 32 + 25 * cpu * 1280 + 40 * gpu * 125

\* SystemProfile::classify, lines 43-80
classify_tier(p) ==
    LET total == classify_total(p)
        vram == classify_vram(p)
        abs_ram_gb == p.total_ram_mb \div 1024
    IN  IF total >= 80 * 2048000 /\ abs_ram_gb >= 60 /\ vram >= 15000 THEN "Ultra"
        ELSE IF total >= 55 * 2048000 /\ abs_ram_gb >= 30 /\ vram >= 7000 THEN "High"
        ELSE IF total >= 30 * 2048000 /\ abs_ram_gb >= 14 /\ vram >= 3000 THEN "Medium"
        ELSE IF abs_ram_gb >= 7 THEN "Low"
        ELSE IF abs_ram_gb >= 3 THEN "Minimal"
        ELSE "Potato"

\* state.rs lines 182-186: the tier the orchestrator is started with
startup_tier(tier) ==
    IF tier \in {"Ultra", "High", "Medium", "Low"} THEN "Low" ELSE "Minimal"

\* the hosts detect_hardware may report
Profiles ==
    {SystemProfile(ram, threads, vram, backend, avx, avx) :
        ram \in {2048, 4096, 8192, 16384, 32768, 65536},
        threads \in {4, 16},
        vram \in {None, Some(0), Some(16384)},
        backend \in {None, Some("cuda"), Some("metal")},
        avx \in {0, 1}}

\* live telemetry of a host: its own memory total, a quarter, four fifths or nearly
\* all of it in use
HostStats(p) ==
    {Stats(cpu, (p.total_ram_mb * used) \div 20, p.total_ram_mb) :
        cpu \in {10, 75, 97}, used \in {5, 16, 19}}

\* compute_budget called for a user under the telemetry s
compute_budget_call(user, s) ==
    /\ gov.op = "none"
    /\ gov' = [op |-> "compute_budget", user |-> user, stats |-> s,
               pressure_level |-> classify_pressure(s, get_policy(user)),
               ret |-> compute_budget(active_tier, get_policy(user), s)]
    /\ UNCHANGED <<now, memVars, infVars, policy_rows, active_tier, clsVars, rtVars,
                   extVars>>

(***************************************************************************)
(* PredictivePreloader (predictive_preloader.rs).                          *)
(***************************************************************************)
\* cooldown_secs: 30, line 44
preload_cooldown_secs == 30

PreTask(pc, result, slept) == [pc |-> pc, result |-> result, slept |-> slept]
NoPreTask == PreTask("none", "none", 0)

\* the preload tasks spawned and not yet ended
InFlight == {h \in Handles : pre_task[h].pc # "none"}

\* set_enabled, lines 48-50
pre_set_enabled(b) ==
    /\ pre_enabled' = b
    /\ UNCHANGED <<now, memVars, infVars, govVars, clsVars, rtVars, hwVars, lsVars, convVars, orchVars, polVars,
                   preload_scheduled, pre_call, pre_task, pre_log, emlVars>>

\* maybe_preload, lines 81-84: return when disabled or when a preload is scheduled
maybe_preload(h) ==
    /\ pre_call[h] = "idle"
    /\ Len(pre_log) + Cardinality(InFlight)
         + Cardinality({g \in Handles : pre_call[g] # "idle"}) < MaxPreloads
    /\ pre_call' = IF ~pre_enabled \/ preload_scheduled THEN pre_call
                   ELSE [pre_call EXCEPT ![h] = "decide"]
    /\ UNCHANGED <<now, memVars, infVars, govVars, clsVars, rtVars, hwVars, lsVars, convVars, orchVars, polVars,
                   pre_enabled, preload_scheduled, pre_task, pre_log, emlVars>>

\* maybe_preload, lines 86-108: the recent complexity and the hardware's load decision
\* either end the call or lead to trigger_preload
maybe_preload_decide(h) ==
    /\ pre_call[h] = "decide"
    /\ \E go \in BOOLEAN :
         pre_call' = [pre_call EXCEPT ![h] = IF go THEN "trigger" ELSE "idle"]
    /\ UNCHANGED <<now, memVars, infVars, govVars, clsVars, rtVars, hwVars, lsVars, convVars, orchVars, polVars,
                   pre_enabled, preload_scheduled, pre_task, pre_log, emlVars>>

\* a slip: the flag is set without looking at what it was
trigger_preload_store_only(h) ==
    /\ pre_call[h] = "trigger"
    /\ pre_task[h].pc = "none"
    /\ pre_call' = [pre_call EXCEPT ![h] = "idle"]
    /\ preload_scheduled' = TRUE
    /\ pre_task' = [pre_task EXCEPT ![h] = PreTask("load", "none", 0)]
    /\ UNCHANGED <<now, memVars, infVars, govVars, clsVars, rtVars, hwVars, lsVars, convVars, orchVars, polVars,
                   pre_enabled, pre_log, emlVars>>

\* trigger_preload, lines 131-151: swap(true); the caller that reads false spawns the task
trigger_preload(h) ==
    /\ pre_call[h] = "trigger"
    /\ pre_task[h].pc = "none"
    /\ pre_call' = [pre_call EXCEPT ![h] = "idle"]
    /\ preload_scheduled' = TRUE
    /\ pre_task' = IF preload_scheduled THEN pre_task
                   ELSE [pre_task EXCEPT ![h] = PreTask("load", "none", 0)]
    /\ UNCHANGED <<now, memVars, infVars, govVars, clsVars, rtVars, hwVars, lsVars, convVars, orchVars, polVars,
                   pre_enabled, pre_log, emlVars>>

\* the spawned task is polled, lines 141-145: get_performance_mode, then load_model is
\* entered (inference_service.rs lines 65-88: the file check and spawn_blocking)
preload_load_begin(h) ==
    /\ pre_task[h].pc = "load"
    /\ pre_task' = [pre_task EXCEPT ![h].pc = "loading"]
    /\ UNCHANGED <<now, memVars, infVars, govVars, clsVars, rtVars, hwVars, lsVars, convVars,
                   orchVars, polVars, emlVars, pre_enabled, preload_scheduled, pre_call,
                   pre_log>>

\* a slip: the task returns on a failed load
preload_load_return_on_error(h) ==
    /\ pre_task[h].pc = "loading"
    /\ \E path \in ModelPaths, ok \in BOOLEAN :
         IF ok
         THEN /\ loaded_lock = 0
              /\ loaded' = Some(LoadedModel(path, now))
              /\ pre_task' = [pre_task EXCEPT ![h] = PreTask("sleep", "ok", 0)]
              /\ pre_log' = pre_log
         ELSE /\ loaded' = loaded
              /\ pre_task' = [pre_task EXCEPT ![h] = NoPreTask]
              /\ pre_log' = Append(pre_log, "err")
    /\ UNCHANGED <<now, memVars, loaded_lock, permits, calls, govVars, clsVars, rtVars,
                   hwVars, lsVars, convVars, orchVars, polVars, pre_enabled, preload_scheduled, pre_call, chunks, auto_unloaders, emlVars>>

\* the spawned task, lines 143-147: load_model, its error only logged
preload_load(h) ==
    /\ pre_task[h].pc = "loading"
    /\ \E path \in ModelPaths, ok \in BOOLEAN :
         IF ok
         THEN /\ loaded_lock = 0
              /\ loaded' = Some(LoadedModel(path, now))
              /\ pre_task' = [pre_task EXCEPT ![h] = PreTask("sleep", "ok", 0)]
         ELSE /\ loaded' = loaded
              /\ pre_task' = [pre_task EXCEPT ![h] = PreTask("sleep", "err", 0)]
    /\ pre_log' = pre_log
    /\ UNCHANGED <<now, memVars, loaded_lock, permits, calls, govVars, clsVars, rtVars,
                   hwVars, lsVars, convVars, orchVars, polVars, pre_enabled, preload_scheduled, pre_call, chunks, auto_unloaders, emlVars>>

\* time passes: the clock reading moves on up to the bound, and every sleeping task has
\* slept ClockStep seconds more (line 149)
TickPre ==
    /\ now' = Min(now + ClockStep, MaxTime)
    /\ pre_task' = [h \in Handles |->
                      IF pre_task[h].pc = "sleep"
                      THEN [pre_task[h] EXCEPT
                              !.slept = Min(@ + ClockStep, preload_cooldown_secs)]
                      ELSE pre_task[h]]
    /\ UNCHANGED <<memVars, infVars, govVars, clsVars, rtVars, hwVars, lsVars, convVars, orchVars, polVars,
                   pre_enabled, preload_scheduled, pre_call, pre_log, emlVars>>

\* the spawned task, line 150: the sleep is over, the flag is cleared, the task ends
preload_store(h) ==
    /\ pre_task[h].pc = "sleep"
    /\ pre_task[h].slept >= preload_cooldown_secs
    /\ preload_scheduled' = FALSE
    /\ pre_log' = Append(pre_log, pre_task[h].result)
    /\ pre_task' = [pre_task EXCEPT ![h] = NoPreTask]
    /\ UNCHANGED <<now, memVars, infVars, govVars, clsVars, rtVars, hwVars, lsVars, convVars, orchVars, polVars,
                   pre_enabled, pre_call, emlVars>>

(***************************************************************************)
(* HardwareService::live_stats and its handles (hardware_service.rs).      *)
(***************************************************************************)
\* the handles AppState::new hands out: the Arc every service shares, the clone given
\* to the governor (state.rs line 316) and the clone inside the orchestrator's copy of
\* the governor (state.rs line 340); Clone shares last_stats and copies last_check
HwHandles == {"app", "governor", "orchestrator_governor"}

\* SystemTime::now() as seconds since the epoch when the clock of the model reads 0
EpochSecs == 1000

unix_now == EpochSecs + now

\* what a poll of the operating system can read
OsReadings == {Stats(10, 40, 100), Stats(90, 86, 100)}

HwCall(pc, handle, at, reading) ==
    [pc |-> pc, handle |-> handle, at |-> at, reading |-> reading]
HwIdle == HwCall("idle", "app", 0, Stats(0, 0, 0))

\* live_stats, lines 432-443: read the clock and last_check; inside the window return
\* the cached reading, else go on to poll
live_stats(t, h) ==
    /\ hw_call[t].pc = "idle"
    /\ Len(poll_log) + Cardinality({u \in HwThreads : hw_call[u].pc = "poll"}) < MaxPolls
    /\ hw_call' = [hw_call EXCEPT ![t] =
                     IF unix_now - last_check[h] < 5
                     THEN HwCall("idle", "app", 0, last_stats)
                     ELSE HwCall("poll", h, unix_now, last_stats)]
    /\ UNCHANGED <<now, memVars, infVars, govVars, clsVars, rtVars, hwVars, preVars, convVars, orchVars, polVars,
                   last_stats, last_check, poll_log, emlVars>>

\* lines 445-460: System::new_all(), refresh_all(): the poll of the operating system
live_stats_poll(t) ==
    /\ hw_call[t].pc = "poll"
    /\ \E s \in OsReadings :
         hw_call' = [hw_call EXCEPT ![t] = [@ EXCEPT !.pc = "store", !.reading = s]]
    /\ poll_log' = Append(poll_log, now)
    /\ UNCHANGED <<now, memVars, infVars, govVars, clsVars, rtVars, hwVars, preVars, convVars, orchVars, polVars,
                   last_stats, last_check, emlVars>>

\* lines 462-467: store the reading in the shared cache and the time in the handle's
\* own last_check
live_stats_store(t) ==
    /\ hw_call[t].pc = "store"
    /\ last_stats' = hw_call[t].reading
    /\ last_check' = [last_check EXCEPT ![hw_call[t].handle] = hw_call[t].at]
    /\ hw_call' = [hw_call EXCEPT ![t] = HwCall("idle", "app", 0, hw_call[t].reading)]
    /\ UNCHANGED <<now, memVars, infVars, govVars, clsVars, rtVars, hwVars, preVars, convVars, orchVars, polVars,
                   poll_log, emlVars>>

(***************************************************************************)
(* ConversationService::send_message (conversation_service.rs): the model  *)
(* resolution and load part of an interactive request.  A model file is    *)
(* named by the id of its row; fails is the set of files the engine cannot *)
(* load during the request.                                                *)
(***************************************************************************)
\* is_manual_selection_mode, lines 83-88: trimmed, compared ignoring ASCII case
SelectionModes == {None, Some("manual"), Some(" Manual "), Some("automatic")}
is_manual_selection_mode(mode) ==
    IsSome(mode) /\ Unwrap(mode) \in {"manual", " Manual "}

\* the ids of the rows list_installed returns
InstalledIds == {installed[i].id : i \in 1..Len(installed)}

\* ModelRepo::get_by_id: the row of the models table with that id, installed or not
get_by_id(id) ==
    IF \E i \in 1..Len(ModelRows) : ModelRows[i].id = id
    THEN Some(ModelRows[CHOOSE i \in 1..Len(ModelRows) : ModelRows[i].id = id])
    ELSE None

\* resolve_selected_model, lines 90-101: an empty name is None, otherwise the row of
\* the models table with that id (no requested name is the name column of a row)
resolve_selected_model(selected_model) ==
    IF selected_model = "" THEN None ELSE get_by_id(selected_model)

\* resolve_target_model_for_routing, lines 103-119: the row of the routed id, else the
\* installed default, else the first installed row
resolve_target_model_for_routing(selected_model_id) ==
    LET by_id == IF IsSome(selected_model_id) THEN get_by_id(Unwrap(selected_model_id))
                 ELSE None
    IN  IF IsSome(by_id) THEN map_id(by_id)
        ELSE map_id(first(SelectSeq(installed, IsDefaultRow) \o installed))

\* ensure_model_loaded, lines 159-188, on the slot content slot (the path resident, if
\* any): Ok without a load when the path is already resident, otherwise load_model,
\* which swaps the slot only when the engine has loaded the file
EnsureResult(ok, slot) == [ok |-> ok, slot |-> slot]
ensure_model_loaded(model_id, slot, fails) ==
    IF slot = Some(model_id) THEN EnsureResult(TRUE, slot)
    ELSE IF model_id \in fails THEN EnsureResult(FALSE, slot)
    ELSE EnsureResult(TRUE, Some(model_id))

\* send_message, lines 190-405, up to the stream it returns: the routed or manually
\* picked model is resolved and loaded; a load error is handled in manual mode only
\* (automatic fallback, or the error returned with context); then generate_stream runs
\* on whatever the slot holds and fails only when the slot is empty (in manual mode
\* that failure finds no automatic target other than the one in use and is returned)
send_message_outcome(manual_mode, selected_model, auto_selected, slot, fails) ==
    LET requested == IF IsSome(selected_model) THEN Unwrap(selected_model) ELSE ""
        resolved  == resolve_selected_model(requested)
        routed    == IF manual_mode /\ requested # "" /\ IsSome(resolved)
                        /\ Unwrap(resolved).id \in InstalledIds
                     THEN map_id(resolved) ELSE auto_selected
        target    == resolve_target_model_for_routing(routed)
        load      == IF IsSome(target)
                     THEN ensure_model_loaded(Unwrap(target), slot, fails)
                     ELSE EnsureResult(TRUE, slot)
        auto      == resolve_target_model_for_routing(auto_selected)
        try_auto  == manual_mode /\ ~load.ok /\ IsSome(auto) /\ auto # target
        fallback  == IF try_auto THEN ensure_model_loaded(Unwrap(auto), load.slot, fails)
                     ELSE load
        returned  == manual_mode /\ ~fallback.ok
    IN  [manual_mode |-> manual_mode, target |-> target,
         load_failed |-> ~load.ok,
         fallback |-> IF try_auto THEN auto ELSE None,
         fallback_failed |-> try_auto /\ ~fallback.ok,
         result |-> IF returned \/ fallback.slot = None THEN "Err" ELSE "Ok",
         error |-> IF returned /\ try_auto THEN "load_and_fallback"
                   ELSE IF returned THEN "load"
                   ELSE IF fallback.slot = None THEN "no_active_model"
                   ELSE "none",
         generated_with |-> IF returned THEN None ELSE fallback.slot,
         slot |-> fallback.slot]

\* one interactive request.  No decode is under way, so generate_stream takes the slot
\* lock and the permit at once; the decode task it spawns is not followed here, and
\* the predictive_preload_enabled gate of maybe_preload_model is off.
send_message(task_type, qos, model_selection_mode, selected_model, fails) ==
    /\ loaded_lock = 0
    /\ LET auto_selected == map_id(select_model(installed, normalize_task_type(task_type),
                                                normalize_qos(qos)))
           slot == get_active_model_info
           out  == send_message_outcome(is_manual_selection_mode(model_selection_mode),
                                        selected_model, auto_selected, slot, fails)
       IN  /\ conv' = Some(out)
           /\ loaded' = IF out.result = "Err" THEN loaded
                        ELSE Some(LoadedModel(Unwrap(out.slot), now))
    /\ UNCHANGED <<now, memVars, loaded_lock, permits, calls, govVars, clsVars, rtVars,
                   hwVars, preVars, lsVars, orchVars, polVars, chunks, auto_unloaders, emlVars>>

(***************************************************************************)
(* RuntimeOrchestratorService::plan_request (runtime_orchestrator_service.rs).  *)
(***************************************************************************)
\* QueryCategory::max_tokens_hint, smart_query_classifier.rs lines 50-62, returned by
\* suggest_max_tokens
max_tokens_hint(category) ==
    CASE category = "simple" -> 256 [] category = "medium" -> 512
      [] category = "complex" -> 1024 [] category = "code" -> 1280
      [] category = "math" -> 768 [] category = "creative" -> 768
      [] category = "analytical" -> 1024 [] category = "summarization" -> 300
      [] category = "translation" -> 1024

\* sanitize_task_type, lines 350-357
sanitize_task_type(task_type) ==
    IF trim_to_lowercase(task_type) \in
          {"chat", "code", "reasoning", "retrieval_heavy", "tool_heavy"}
    THEN trim_to_lowercase(task_type)
    ELSE "chat"

\* sanitize_qos, lines 359-364
sanitize_qos(qos) ==
    IF trim_to_lowercase(qos) \in {"fast", "balanced", "max_quality"}
    THEN trim_to_lowercase(qos)
    ELSE "balanced"

\* infer_task_type_from_category, lines 366-377
infer_task_type_from_category(category) ==
    CASE category = "code" -> "code"
      [] category \in {"math", "analytical", "complex"} -> "reasoning"
      [] category \in {"creative", "simple", "medium"} -> "chat"
      [] category \in {"summarization", "translation"} -> "reasoning"

\* infer_qos_from_category, lines 379-388
infer_qos_from_category(category) ==
    CASE category = "simple" -> "fast"
      [] category \in {"medium", "creative", "summarization", "translation"} -> "balanced"
      [] category \in {"complex", "code", "math", "analytical"} -> "max_quality"

\* plan_request lines 163-168, in hundredths
pressure_factor(pressure) ==
    CASE pressure = "critical" -> 45 [] pressure = "high" -> 65
      [] pressure = "warm" -> 85 [] OTHER -> 100

OrchestratedRequest(task_type, qos, query_category, max_tokens, pressure_level, defer_background) ==
    [task_type |-> task_type, qos |-> qos, query_category |-> query_category,
     max_tokens_hint |-> max_tokens, pressure_level |-> pressure_level,
     defer_background |-> defer_background]

\* plan_request, lines 136-186, for the category classify returned.  current_stats
\* (line 149) returns the reading s; compute_budget (line 160) reads the telemetry
\* again through the orchestrator's own HardwareService handle and gets s_budget.
\* The record keeps, next to the request, the budget the hint was clamped to and the
\* pressure level that budget was scaled with.  context_window_hint, a read of the
\* classifier's history, is left out of the request.
plan_request_result(policy, category, explicit_task_type, explicit_qos, allow_background_defer, s, s_budget) ==
    LET pressure  == classify_pressure(s, policy)
        task_type == IF IsSome(explicit_task_type)
                     THEN sanitize_task_type(Unwrap(explicit_task_type))
                     ELSE infer_task_type_from_category(category)
        qos       == IF IsSome(explicit_qos) THEN sanitize_qos(Unwrap(explicit_qos))
                     ELSE infer_qos_from_category(category)
        budget    == compute_budget(active_tier, policy, s_budget)
        capped    == Min(max_tokens_hint(category), budget.interactive_max_tokens)
        scaled    == Round(capped * pressure_factor(pressure), 100)
    IN  [request |-> OrchestratedRequest(
                        task_type, qos, category,
                        Clamp(scaled, 96, budget.interactive_max_tokens), pressure,
                        allow_background_defer
                           /\ policy.defer_background_under_pressure
                           /\ pressure \in {"high", "critical"}),
         budget |-> budget,
         budget_pressure |-> classify_pressure(s_budget, policy)]

\* one plan_request call: the classification is stored in the classifier's history
\* (line 144), the policy is read, the request is returned.  The usage learner's and
\* the preloader's query records are not part of the state.
plan_request(user_id, category, explicit_task_type, explicit_qos, allow_background_defer, s, s_budget) ==
    /\ plan = None
    /\ plan' = Some(plan_request_result(get_policy(Some(user_id)), category,
                                        explicit_task_type, explicit_qos,
                                        allow_background_defer, s, s_budget))
    /\ recent_classifications' = store(recent_classifications, category)
    /\ UNCHANGED <<now, memVars, infVars, govVars, cls, rtVars, hwVars, preVars, lsVars,
                   convVars, polVars, emlVars>>

\* the caller takes the request (and the decision routed for it, if any)
plan_return ==
    /\ plan # None
    /\ plan' = None
    /\ decision' = None
    /\ route_audit' = "none"
    /\ UNCHANGED <<now, memVars, infVars, govVars, clsVars, installed, routing_events,
                   hwVars, preVars, lsVars, convVars, polVars, emlVars>>

(***************************************************************************)
(* RuntimeGovernorService::set_policy statement by statement: the read of  *)
(* get_policy and the UPDATE / INSERT are two awaits, and other callers    *)
(* run between them (runtime_governor_service.rs lines 61-106).            *)
(***************************************************************************)
NumWriters == 2
Writers == 1..NumWriters

SpCall(pc, user, patch, next) == [pc |-> pc, user |-> user, patch |-> patch, next |-> next]
SpIdle == SpCall("idle", None, Patch(None, None, None, None, None, None, None, None),
                 DefaultPolicy)

\* lines 66-67: next = get_policy(user_id), apply_patch(&mut next, patch)
set_policy_read(w, user, patch) ==
    /\ sp[w].pc = "idle"
    /\ sp' = [sp EXCEPT ![w] = SpCall("write", user, patch,
                                       apply_patch(get_policy(user), patch))]
    /\ UNCHANGED <<now, memVars, infVars, govVars, clsVars, rtVars, hwVars, preVars, lsVars,
                   convVars, orchVars, policy_version, emlVars>>

\* lines 69-103: UPDATE ... SET policy_json = encoded, version = version + 1 for the
\* scope's row, whatever its version, or INSERT the row when the UPDATE touched none
\* (a new row starts at version 1)
set_policy_write(w) ==
    /\ sp[w].pc = "write"
    /\ LET sc == ScopeOf(sp[w].user)
       IN  /\ policy_rows' = [policy_rows EXCEPT ![sc] = Some(to_string(sp[w].next))]
           /\ policy_version' = [policy_version EXCEPT ![sc] = @ + 1]
           /\ sp' = [sp EXCEPT ![w].pc = "done"]
    /\ UNCHANGED <<now, memVars, infVars, active_tier, gov, clsVars, rtVars, hwVars, preVars,
                   lsVars, convVars, orchVars, emlVars>>

(***************************************************************************)
(* ConversationService::ensure_model_loaded statement by statement         *)
(* (conversation_service.rs lines 159-188).  spawned = the handle whose    *)
(* preload task this call has spawned, 0 when it has spawned none.         *)
(***************************************************************************)
EmlCall(pc, path, spawned, result) ==
    [pc |-> pc, path |-> path, spawned |-> spawned, result |-> result]
EmlIdle == EmlCall("idle", "", 0, "none")

\* lines 171-179: get_active_model_info; the resident model is the one asked for -> Ok
\* (calls are started while fewer than MaxPreloads preload tasks have been spawned)
eml_begin(path) ==
    /\ eml.pc = "idle"
    /\ Len(pre_log) + Cardinality(InFlight) < MaxPreloads
    /\ eml' = IF get_active_model_info = Some(path)
              THEN EmlCall("done", path, 0, "Ok")
              ELSE EmlCall("preload", path, 0, "none")
    /\ UNCHANGED <<now, memVars, infVars, govVars, clsVars, rtVars, hwVars, preVars, lsVars,
                   convVars, orchVars, polVars>>

\* lines 181-183: runtime_orchestrator.maybe_preload_model(&model_path, profile).await:
\* nothing when the feature gate is off (runtime_orchestrator_service.rs line 189);
\* otherwise PredictivePreloader::maybe_preload, which returns early when disabled,
\* when a preload is scheduled, or on the complexity and load decision (go), and
\* else trigger_preload: swap(true) and tokio::spawn of the task that will call
\* load_model on the same path (predictive_preloader.rs lines 81-108, 131-151)
eml_maybe_preload ==
    /\ eml.pc = "preload"
    /\ \E gate \in BOOLEAN, go \in BOOLEAN :
         IF gate /\ go /\ pre_enabled /\ ~preload_scheduled
         THEN \E h \in Handles :
                /\ pre_task[h].pc = "none"
                /\ preload_scheduled' = TRUE
                /\ pre_task' = [pre_task EXCEPT ![h] = PreTask("load", "none", 0)]
                /\ eml' = [eml EXCEPT !.pc = "load", !.spawned = h]
         ELSE /\ eml' = [eml EXCEPT !.pc = "load"]
              /\ UNCHANGED <<preload_scheduled, pre_task>>
    /\ UNCHANGED <<now, memVars, infVars, govVars, clsVars, rtVars, hwVars, lsVars, convVars,
                   orchVars, polVars, pre_enabled, pre_call, pre_log>>

\* lines 184-187: get_performance_mode, then the call's own load_model is entered
eml_load_begin ==
    /\ eml.pc = "load"
    /\ eml' = [eml EXCEPT !.pc = "loading"]
    /\ UNCHANGED <<now, memVars, infVars, govVars, clsVars, rtVars, hwVars, preVars, lsVars,
                   convVars, orchVars, polVars>>

\* the call's load_model returns: Err with the slot as it was, or the swap and Ok
eml_load_end ==
    /\ eml.pc = "loading"
    /\ \E ok \in BOOLEAN :
         IF ok
         THEN /\ load_model(eml.path)
              /\ eml' = [eml EXCEPT !.pc = "done", !.result = "Ok"]
         ELSE /\ loaded' = loaded
              /\ eml' = [eml EXCEPT !.pc = "done", !.result = "Err"]
    /\ UNCHANGED <<now, memVars, loaded_lock, permits, calls, chunks, auto_unloaders, govVars,
                   clsVars, rtVars, hwVars, preVars, lsVars, convVars, orchVars, polVars>>

\* the caller takes the result
eml_return ==
    /\ eml.pc = "done"
    /\ eml' = EmlIdle
    /\ UNCHANGED <<now, memVars, infVars, govVars, clsVars, rtVars, hwVars, preVars, lsVars,
                   convVars, orchVars, polVars>>

(***************************************************************************)
(* Specifications.                                                         *)
(***************************************************************************)
InitClock == now = 0

InitMem ==
    /\ mm_cfg = new
    /\ enabled = TRUE
    /\ stats = Stats(10, 84, 100)
    /\ last_unload_time = None
    /\ mm_lock = 0
    /\ total_unloads = 0
    /\ total_loads = 0
    /\ mon = [m \in Monitors |-> MonIdle("None")]
    /\ unload_log = <<>>

InitInf ==
    /\ loaded = None
    /\ loaded_lock = 0
    /\ permits = limiter_capacity
    /\ calls = [c \in Callers |-> CallIdle]
    /\ chunks = [c \in Callers |-> <<>>]
    /\ auto_unloaders = 0

InitGov ==
    /\ policy_rows = [sc \in Scopes |-> None]
    /\ active_tier = "Medium"
    /\ gov = [op |-> "none"]

InitCls ==
    /\ recent_classifications = <<>>
    /\ cls = [n |-> 0, query |-> None, categories |-> {}]

InitRoute ==
    /\ installed = <<>>
    /\ decision = None
    /\ routing_events = 0
    /\ route_audit = "none"

InitHw ==
    /\ profile = SystemProfile(16384, 8, None, None, 1, 0)
    /\ detected_tier = classify_tier(profile)

InitPre ==
    /\ pre_enabled = TRUE
    /\ preload_scheduled = FALSE
    /\ pre_call = [h \in Handles |-> "idle"]
    /\ pre_task = [h \in Handles |-> NoPreTask]
    /\ pre_log = <<>>

InitLiveStats ==
    /\ last_stats = Stats(0, 0, 0)
    /\ last_check = [h \in HwHandles |-> 0]
    /\ hw_call = [t \in HwThreads |-> HwIdle]
    /\ poll_log = <<>>

InitConv == conv = None

InitOrch == plan = None

InitPol ==
    /\ policy_version = [sc \in Scopes |-> 0]
    /\ sp = [w \in Writers |-> SpIdle]

InitEml == eml = EmlIdle

InitExt == InitHw /\ InitPre /\ InitLiveStats /\ InitConv /\ InitOrch /\ InitPol /\ InitEml

\* ---- SpecMem: the watchdog, built by new or by with_thresholds, one or more monitor
\* loops calling check_and_manage at any time, the telemetry moving freely, and the
\* conversation pipeline reloading the model after an unload
InitMemSpec ==
    /\ InitClock /\ InitExt
    /\ InitMem!2 /\ InitMem!3 /\ InitMem!4 /\ InitMem!5 /\ InitMem!6 /\ InitMem!7
    /\ InitMem!8 /\ InitMem!9
    /\ mm_cfg \in {new, with_thresholds(86, 50, 80, 40)}
    /\ InitInf /\ InitGov /\ InitCls /\ InitRoute

NextMem ==
    \/ Tick
    \/ \E s \in MemTrace : SetStats(s)
    \/ \E b \in BOOLEAN : set_enabled(b)
    \/ \E m \in Monitors : check_and_manage(m)
    \/ \E m \in Monitors : maybe_unload_lock(m)
    \/ \E m \in Monitors : maybe_unload_model(m)
    \/ \E m \in Monitors : maybe_load_model(m)
    \/ \E path \in ModelPaths : LoadModel(path)

SpecMem == InitMemSpec /\ [][NextMem]_vars

(***************************************************************************)
(* C1: two successful model unloads by the AdaptiveMemoryManager are never *)
(* less than unload_cooldown_secs apart, for any interleaving of monitor   *)
(* loops and any telemetry trace (0.86 / 0.84 oscillation included).       *)
(***************************************************************************)
C1_UnloadsCooldownApart ==
    Len(unload_log) = 2 =>
        unload_log[2] - unload_log[1] >= mm_cfg.unload_cooldown_secs

\* two successful unloads have happened and a monitor is again asking to unload
\* under the 0.86 reading
C1_Witness ==
    /\ Len(unload_log) = 2
    /\ total_unloads = 2
    /\ stats = Stats(10, 86, 100)
    /\ \E m \in Monitors : mon[m].pc = "unload_lock"

\* ---- SpecInf: concurrent generate_stream / generate_with_tools calls against the
\* one slot, with loads and unloads arriving from outside at any time
InitInfSpec == InitClock /\ InitExt /\ InitMem /\ InitInf /\ InitGov /\ InitCls /\ InitRoute

NextInf ==
    \/ Tick
    \/ \E path \in ModelPaths : LoadModel(path)
    \/ UnloadModel
    \/ \E c \in Callers : generate_stream(c)
    \/ \E c \in Callers : generate_with_tools(c)
    \/ \E c \in Callers : acquire_owned(c)
    \/ \E c \in Callers : decode_begin(c)
    \/ \E c \in Callers : decode_end(c)
    \/ \E c \in Callers : release_permit(c)

SpecInf == InitInfSpec /\ [][NextInf]_vars

Decoding == {c \in Callers : calls[c].pc = "decode"}
Holding  == {c \in Callers : calls[c].permit}

(***************************************************************************)
(* C2: at most one decode is in progress at any time, every decode runs    *)
(* under the single permit, and a caller that finds the permit taken stays *)
(* suspended at the acquire until a permit has been released.              *)
(***************************************************************************)
C2_OneDecode ==
    /\ [](/\ Cardinality(Decoding) <= 1
          /\ Decoding \subseteq Holding
          /\ Cardinality(Holding) <= 1
          /\ permits + Cardinality(Holding) = limiter_capacity)
    /\ [][\A c \in Callers :
            (calls[c].pc = "acquire" /\ permits = 0) => calls'[c].pc = "acquire"]_vars

\* one call is decoding while another one waits for the permit
C2_Witness ==
    \E c, d \in Callers :
        /\ c # d
        /\ calls[c].pc = "decode"
        /\ calls[d].pc = "acquire"
        /\ permits = 0

(***************************************************************************)
(* C3 as stated: no call reads or writes the resident-model slot (its      *)
(* last-used timestamp included) until that call holds the permit.         *)
(***************************************************************************)
C3_NoTouchBeforePermit ==
    \A c \in Callers : calls[c].touched => calls[c].permit

(***************************************************************************)
(* What the code does guarantee around C3: no call starts a decode, and no *)
(* generate_with_tools call touches the slot at all, until the call holds  *)
(* the permit; the only slot access without the permit is the initial      *)
(* loaded-check and last-used store of generate_stream.                    *)
(***************************************************************************)
C3_DecodeOnlyUnderPermit ==
    \A c \in Callers :
        /\ calls[c].pc \in {"spawn", "decode"} => calls[c].permit
        /\ (calls[c].touched /\ ~calls[c].permit) =>
              (calls[c].kind = "stream" /\ calls[c].pc = "acquire")

\* a generate_stream call has stored the timestamp and is waiting for the permit,
\* which another decoding call owns
C3_Witness ==
    \E c, d \in Callers :
        /\ calls[c].kind = "stream" /\ calls[c].pc = "acquire" /\ calls[c].touched
        /\ calls[d].pc = "decode" /\ calls[d].permit
        /\ IsSome(loaded) /\ Unwrap(loaded).last_used_secs = now /\ now > 0

\* ---- SpecGov: policies patched through set_policy from the compiled defaults, the
\* orchestrator built for any tier, budgets and tuned options computed in between
InitGovSpec ==
    /\ InitClock /\ InitExt /\ InitMem /\ InitInf /\ InitCls /\ InitRoute
    /\ policy_rows = [sc \in Scopes |-> None]
    /\ active_tier \in DeviceTiers
    /\ gov = [op |-> "none"]

UserArgs == {None} \cup {Some(u) : u \in Users}

NextGov ==
    \/ gov_return
    \/ \E user \in UserArgs, patch \in Patches : set_policy(user, patch)
    \/ \E user \in UserArgs : get_runtime_profile(user)
    \/ /\ gov.op = "none"
       /\ \E user \in UserArgs, max_tokens \in {50, 512, 1024, 5000},
             qos \in Qos \cup {"turbo"}, pressure \in PressureLevels,
             is_background \in BOOLEAN :
               tune_generation_call(user, GenerationOptions(max_tokens), qos, pressure,
                                    is_background)

SpecGov == InitGovSpec /\ [][NextGov]_vars

PressureRank(p) ==
    CASE p = "normal" -> 0 [] p = "warm" -> 1 [] p = "high" -> 2 [] p = "critical" -> 3

(***************************************************************************)
(* C4: for a fixed active tier, policy and free-RAM reading, the           *)
(* interactive_max_tokens of compute_budget's ServiceBudget does not grow  *)
(* as the pressure level moves normal -> warm -> high -> critical.         *)
(***************************************************************************)
C4_MonotonicDegradation ==
    gov.op = "get_runtime_profile" =>
        \A s2 \in GovStats :
            LET policy == get_policy(gov.user)
            IN  (/\ FreeRam(s2) = FreeRam(gov.stats)
                 /\ PressureRank(classify_pressure(s2, policy))
                      >= PressureRank(classify_pressure(gov.stats, policy)))
                => compute_budget(active_tier, policy, s2).interactive_max_tokens
                      <= gov.service_budget.interactive_max_tokens

\* a budget computed under critical pressure that is strictly below the budget the
\* same tier, policy and free RAM get under normal pressure
C4_Witness ==
    /\ gov.op = "get_runtime_profile"
    /\ classify_pressure(gov.stats, get_policy(gov.user)) = "critical"
    /\ \E s2 \in GovStats :
          /\ FreeRam(s2) = FreeRam(gov.stats)
          /\ classify_pressure(s2, get_policy(gov.user)) = "normal"
          /\ compute_budget(active_tier, get_policy(gov.user), s2).interactive_max_tokens
                > gov.service_budget.interactive_max_tokens

(***************************************************************************)
(* C5: for every policy reachable from the compiled defaults by set_policy *)
(* calls, every tier, reading and pressure level, each field of the        *)
(* ServiceBudget is at most the corresponding RuntimePolicy field.         *)
(***************************************************************************)
C5_BudgetWithinPolicy ==
    gov.op = "get_runtime_profile" =>
        LET policy == get_policy(gov.user)
            b == gov.service_budget
        IN  /\ b.interactive_max_tokens <= policy.interactive_max_tokens
            /\ b.background_max_tokens <= policy.background_max_tokens
            /\ b.retrieval_candidate_limit <= policy.retrieval_candidate_limit
            /\ b.interactive_max_concurrency <= policy.interactive_max_concurrency
            /\ b.background_max_concurrency <= policy.background_max_concurrency

\* the policy patched down to its floors (96 / 64 tokens), where the budget's own
\* floors of 96 and 64 meet the policy caps on a tier that would allow more
C5_Witness ==
    /\ gov.op = "get_runtime_profile"
    /\ IsSome(policy_rows[ScopeOf(gov.user)])
    /\ get_policy(gov.user).interactive_max_tokens = 96
    /\ gov.service_budget.interactive_max_tokens = 96
    /\ gov.service_budget.background_max_tokens = 64
    /\ active_tier = "Ultra"

(***************************************************************************)
(* C6: the max_tokens returned by tune_generation never exceeds the stored *)
(* policy's lane cap (interactive_max_tokens, or background_max_tokens for *)
(* a background request), qos = max_quality (factor 1.20) included.        *)
(***************************************************************************)
C6_LaneCapIsCeiling ==
    gov.op = "tune_generation" =>
        gov.ret.max_tokens <=
            (IF gov.is_background THEN get_policy(gov.user).background_max_tokens
             ELSE get_policy(gov.user).interactive_max_tokens)

\* max_quality under normal pressure with a request above the cap: the 1.20 budget is
\* above the lane cap and the result is the cap itself
C6_Witness ==
    /\ gov.op = "tune_generation"
    /\ gov.qos = "max_quality" /\ gov.pressure = "normal" /\ ~gov.is_background
    /\ gov.base.max_tokens > get_policy(gov.user).interactive_max_tokens
    /\ gov.ret.max_tokens = get_policy(gov.user).interactive_max_tokens

(***************************************************************************)
(* C12: tune_generation returns max_tokens = min(requested, lane_cap,      *)
(* max(round(lane_cap x qos_factor x pressure_factor), 96)), with the qos  *)
(* factors 0.72 / 1.0 / 1.20 and the pressure factors 0.40 / 0.60 / 0.85 / *)
(* 1.0; under the default policy an interactive request of at least 184    *)
(* tokens with qos fast under critical pressure is tuned to exactly 184.   *)
(***************************************************************************)
C12_TunedMaxTokens ==
    gov.op = "tune_generation" =>
        LET policy == get_policy(gov.user)
            lane_cap == IF gov.is_background THEN policy.background_max_tokens
                        ELSE policy.interactive_max_tokens
            qf == IF gov.qos = "fast" THEN 72
                  ELSE IF gov.qos = "max_quality" THEN 120 ELSE 100
            pf == IF gov.pressure = "critical" THEN 40
                  ELSE IF gov.pressure = "high" THEN 60
                  ELSE IF gov.pressure = "warm" THEN 85 ELSE 100
            x  == lane_cap * qf * pf      \* ten thousand times the product
        IN  /\ \E b \in {x \div 10000, (x \div 10000) + 1} :
                 \* b is x / 10000 rounded to the nearest integer, halves up
                 /\ 2 * x - 10000 < 20000 * b
                 /\ 20000 * b <= 2 * x + 10000
                 /\ gov.ret.max_tokens =
                      Min(Min(gov.base.max_tokens, lane_cap), Max(b, 96))
            /\ (/\ policy = DefaultPolicy /\ ~gov.is_background
                /\ gov.qos = "fast" /\ gov.pressure = "critical"
                /\ gov.base.max_tokens >= 184) => gov.ret.max_tokens = 184

\* the scenario of C12: default policy, fast, critical, 512 tokens requested
C12_Witness ==
    /\ gov.op = "tune_generation"
    /\ get_policy(gov.user) = DefaultPolicy
    /\ ~gov.is_background /\ gov.qos = "fast" /\ gov.pressure = "critical"
    /\ gov.base.max_tokens = 512
    /\ gov.ret.max_tokens = 184

\* the per-field ranges of a policy
WithinClamps(policy) ==
    /\ policy.pressure_cpu_pct >= 50 /\ policy.pressure_cpu_pct <= 99
    /\ policy.pressure_memory_pct >= 50 /\ policy.pressure_memory_pct <= 99
    /\ policy.interactive_max_tokens >= 96 /\ policy.interactive_max_tokens <= 4096
    /\ policy.background_max_tokens >= 64 /\ policy.background_max_tokens <= 2048
    /\ policy.interactive_max_concurrency >= 1 /\ policy.interactive_max_concurrency <= 4
    /\ policy.background_max_concurrency >= 1 /\ policy.background_max_concurrency <= 4
    /\ policy.retrieval_candidate_limit >= 8 /\ policy.retrieval_candidate_limit <= 128

(***************************************************************************)
(* C14: after any sequence of set_policy calls with arbitrary patches,     *)
(* starting from the compiled defaults, every policy stored and every      *)
(* policy returned is within the per-field clamps: thresholds in [50,99],  *)
(* interactive tokens in [96,4096], background tokens in [64,2048], both   *)
(* concurrency caps in [1,4], retrieval candidates in [8,128].             *)
(***************************************************************************)
C14_PolicyWithinClamps ==
    /\ \A sc \in Scopes :
          policy_rows[sc] # None =>
              /\ from_str(Unwrap(policy_rows[sc])) # None
              /\ WithinClamps(Unwrap(from_str(Unwrap(policy_rows[sc]))))
    /\ \A user \in UserArgs : WithinClamps(get_policy(user))
    /\ gov.op = "set_policy" => WithinClamps(gov.ret)

\* a patch far below every range has been stored for the user on top of a global row:
\* the stored policy sits on the lower ends
C14_Witness ==
    /\ gov.op = "set_policy"
    /\ gov.user # None
    /\ policy_rows["global"] # None
    /\ policy_rows[Unwrap(gov.user)] = Some(to_string(gov.ret))
    /\ gov.ret.pressure_cpu_pct = 50
    /\ gov.ret.interactive_max_tokens = 96
    /\ gov.ret.background_max_tokens = 64
    /\ gov.ret.background_max_concurrency = 1
    /\ gov.ret.retrieval_candidate_limit = 8

\* ---- SpecPressure: classify_pressure over every whole cpu and memory percentage,
\* under the thresholds set_policy can store
\* (memory_total_mb = 0 is the reading without a memory total)
InitPressureSpec == InitClock /\ InitExt /\ InitMem /\ InitInf /\ InitGov /\ InitCls /\ InitRoute

NextPressure ==
    \/ gov_return
    \/ \E patch \in Patches : set_policy(None, patch)
    \/ /\ gov.op = "none"
       /\ \E cpu \in 0..100, used \in 0..100, total \in {0, 100} :
             classify_pressure_call(None, Stats(cpu, used, total))

SpecPressure == InitPressureSpec /\ [][NextPressure]_vars

MemPct100(s) == IF s.memory_total_mb = 0 THEN 0 ELSE s.memory_used_mb * 100
MemDen(s)    == IF s.memory_total_mb = 0 THEN 1 ELSE s.memory_total_mb

(***************************************************************************)
(* C7 as stated: classify_pressure is critical if cpu >= 95 or mem >= 93;  *)
(* else high if cpu or mem exceeds (is strictly above) the policy's        *)
(* threshold; else warm if cpu >= 70 or mem >= 75; else normal.            *)
(***************************************************************************)
C7_PressureLadderStrict ==
    gov.op = "classify_pressure" =>
        LET s == gov.stats
            policy == get_policy(gov.user)
        IN  gov.ret =
              IF s.cpu_usage_pct >= 95 \/ MemPct100(s) >= 93 * MemDen(s) THEN "critical"
              ELSE IF s.cpu_usage_pct > policy.pressure_cpu_pct
                      \/ MemPct100(s) > policy.pressure_memory_pct * MemDen(s) THEN "high"
              ELSE IF s.cpu_usage_pct >= 70 \/ MemPct100(s) >= 75 * MemDen(s) THEN "warm"
              ELSE "normal"

(***************************************************************************)
(* C7 amended: classify_pressure returns exactly one of the four levels:   *)
(* critical if cpu >= 95 or mem >= 93, whatever the policy says; else high *)
(* if cpu or mem is at or above the policy's threshold; else warm if       *)
(* cpu >= 70 or mem >= 75; else normal (no memory total counts as 0%).     *)
(***************************************************************************)
C7_PressureLadder ==
    gov.op = "classify_pressure" =>
        LET s == gov.stats
            policy == get_policy(gov.user)
            critical == s.cpu_usage_pct >= 95 \/ MemPct100(s) >= 93 * MemDen(s)
            high == \/ s.cpu_usage_pct >= policy.pressure_cpu_pct
                    \/ MemPct100(s) >= policy.pressure_memory_pct * MemDen(s)
            warm == s.cpu_usage_pct >= 70 \/ MemPct100(s) >= 75 * MemDen(s)
        IN  /\ gov.ret \in PressureLevels
            /\ gov.ret = "critical" <=> critical
            /\ gov.ret = "high" <=> (~critical /\ high)
            /\ gov.ret = "warm" <=> (~critical /\ ~high /\ warm)
            /\ gov.ret = "normal" <=> (~critical /\ ~high /\ ~warm)

\* a reading exactly on the policy's cpu threshold, classified high, and a reading
\* above a threshold of 99 that the fixed 95 mark already makes critical
C7_Witness ==
    /\ gov.op = "classify_pressure"
    /\ \/ /\ gov.stats.cpu_usage_pct = get_policy(gov.user).pressure_cpu_pct
          /\ gov.stats.memory_used_mb = 0
          /\ gov.ret = "high"
       \/ /\ get_policy(gov.user).pressure_cpu_pct = 99
          /\ gov.stats.cpu_usage_pct = 96
          /\ gov.ret = "critical"


\* ---- SpecCls: classify called with any queries, on a fresh history or on a history
\* that is full, so that the next store trims it
FullHistory == [i \in 1..256 |-> ClassificationRecord("simple", 0)]

InitClsSpec ==
    /\ InitClock /\ InitExt /\ InitMem /\ InitInf /\ InitGov /\ InitRoute
    /\ recent_classifications \in {<<>>, FullHistory}
    /\ InitCls!2

NextCls == \E query \in Queries : classify(query)

SpecCls == InitClsSpec /\ [][NextCls]_vars

(***************************************************************************)
(* C8: classify is deterministic: all calls with the same text return the  *)
(* same category, whatever the history holds and whatever is classified in *)
(* between, ties for the top score included.                               *)
(***************************************************************************)
C8_ClassifyDeterministic == Cardinality(cls.categories) <= 1


\* ---- SpecRoute: route and preview called with any arguments and telemetry, on any
\* list of installed models
RouteContents ==
    {Query(<<"hello">>, 0), Query(<<"DEBUG">>, 0), Query(<<"analyze">>, 20),
     Query(<<"run">>, 0)}
RouteTaskTypes ==
    {None, Some("Code"), Some(" Reasoning "), Some("retrieval_heavy"), Some("bogus")}
RouteQos == {None, Some("FAST"), Some("balanced"), Some("max_quality"), Some("turbo")}
RouteStats == {Stats(10, 10, 100), Stats(75, 10, 100), Stats(90, 10, 100),
               Stats(10, 95, 100)}

InitRouteSpec ==
    /\ InitClock /\ InitExt /\ InitMem /\ InitInf /\ InitGov /\ InitCls
    /\ installed \in InstalledLists
    /\ InitRoute!2 /\ InitRoute!3 /\ InitRoute!4

NextRoute ==
    \/ route_return
    \/ /\ decision = None
       /\ routing_events < MaxRouteEvents
       /\ \E u \in Users, content \in RouteContents, task_type \in RouteTaskTypes,
             qos \in RouteQos, is_background \in BOOLEAN, s \in RouteStats,
             recorded \in BOOLEAN :
            route(u, content, task_type, qos, is_background, s, recorded)
    \/ /\ decision = None
       /\ \E u \in Users, content \in RouteContents, task_type \in RouteTaskTypes,
             qos \in RouteQos, s \in RouteStats :
            preview(u, content, task_type, qos, s)

SpecRoute == InitRouteSpec /\ [][NextRoute]_vars

(***************************************************************************)
(* C9: in every decision returned by route or preview, for any list of     *)
(* installed models, the selected model id is not in the fallback chain    *)
(* and the chain has at most 3 entries.                                    *)
(***************************************************************************)
C9_FallbackExcludesSelection ==
    IsSome(decision) =>
        LET d == Unwrap(decision)
        IN  /\ Len(d.fallback_chain) <= 3
            /\ IsSome(d.selected_model_id) =>
                 \A i \in 1..Len(d.fallback_chain) :
                    d.fallback_chain[i] # Unwrap(d.selected_model_id)

\* five models installed: the chain is cut to three and skips the selected model, which
\* is not the first of the list
C9_Witness ==
    /\ IsSome(decision)
    /\ Len(installed) = 5
    /\ Len(Unwrap(decision).fallback_chain) = 3
    /\ IsSome(Unwrap(decision).selected_model_id)
    /\ Unwrap(decision).selected_model_id # Some(installed[1].id)
    /\ Unwrap(decision).fallback_chain[1] = installed[1].id

(***************************************************************************)
(* C10: route and preview return selected_model_id = None exactly when no  *)
(* model is installed: with none installed the decision has no selected    *)
(* model and an empty fallback chain, and with at least one installed the  *)
(* selected id is the id of an installed model.                            *)
(***************************************************************************)
C10_SelectedIffInstalled ==
    IsSome(decision) =>
        LET d == Unwrap(decision)
        IN  /\ (d.selected_model_id = None) <=> (installed = <<>>)
            /\ installed = <<>> => d.fallback_chain = <<>>
            /\ installed # <<>> =>
                 \E i \in 1..Len(installed) :
                    d.selected_model_id = Some(installed[i].id)

\* a decision returned with no model installed
C10_Witness ==
    /\ IsSome(decision)
    /\ installed = <<>>
    /\ Unwrap(decision).selected_model_id = None
    /\ Unwrap(decision).selected_model_name = None
    /\ Unwrap(decision).fallback_chain = <<>>


\* ---- SpecTier: AppState::new on any detected host, then budgets computed under the
\* host's live telemetry and the stored policy
InitTierSpec ==
    /\ InitClock /\ InitMem /\ InitInf /\ InitCls /\ InitRoute /\ InitPre
    /\ InitLiveStats /\ InitConv /\ InitOrch /\ InitPol /\ InitEml
    /\ profile \in Profiles
    /\ detected_tier = classify_tier(profile)
    /\ active_tier = startup_tier(detected_tier)
    /\ InitGov!1 /\ InitGov!3

NextTier ==
    \/ gov_return
    \/ /\ gov.op = "none"
       /\ \E u \in UserArgs, s \in HostStats(profile) : compute_budget_call(u, s)

SpecTier == InitTierSpec /\ [][NextTier]_vars

\* the host of the scenario: 4096 MB of RAM, no VRAM, 4 threads
IsPotatoScenario(p) ==
    /\ p.total_ram_mb = 4096
    /\ classify_vram(p) = 0
    /\ p.cpu_threads = 4

(***************************************************************************)
(* C11: the host {4096 MB RAM, no VRAM, 4 threads} is classified Potato,   *)
(* and every budget computed for it under normal pressure has              *)
(* interactive_max_tokens <= 128.                                          *)
(***************************************************************************)
C11_PotatoHostBudget ==
    IsPotatoScenario(profile) =>
        /\ detected_tier = "Potato"
        /\ (gov.op = "compute_budget" /\ gov.pressure_level = "normal") =>
              gov.ret.interactive_max_tokens <= 128



\* ---- SpecPolicy: get_policy and set_policy over override rows that hold a policy
\* written by set_policy or a policy_json this build cannot parse
StoredPolicy ==
    to_string(apply_patch(DefaultPolicy,
                          Patch(Some(70), None, Some(300), None, None, None, None, None)))

\* a row written without the last member, and one with a negative token cap
MalformedPolicyJson ==
    { [k \in PolicyJsonKeys \ {"deferBackgroundUnderPressure"} |-> StoredPolicy[k]],
      [StoredPolicy EXCEPT !.interactiveMaxTokens = -5] }

InitPolicySpec ==
    /\ InitClock /\ InitExt /\ InitMem /\ InitInf /\ InitCls /\ InitRoute
    /\ policy_rows \in
         [Scopes -> {None, Some(StoredPolicy)} \cup {Some(j) : j \in MalformedPolicyJson}]
    /\ InitGov!2 /\ InitGov!3

NextPolicy ==
    \/ gov_return
    \/ \E user \in UserArgs : get_policy_call(user)
    \/ \E user \in UserArgs, patch \in Patches : set_policy(user, patch)

SpecPolicy == InitPolicySpec /\ [][NextPolicy]_vars

\* the row get_policy reads for a user: the user's row when there is one, else the
\* global row
RowInEffect(user) ==
    IF IsSome(user) /\ policy_rows[Unwrap(user)] # None
    THEN policy_rows[Unwrap(user)]
    ELSE policy_rows["global"]

(***************************************************************************)
(* C13: get_policy(user) returns the policy of the user's override row     *)
(* when there is one, else the policy of the global row when there is one, *)
(* else the compiled defaults; a stored policy JSON that does not parse is *)
(* never an error: the call returns Ok with the compiled defaults.         *)
(***************************************************************************)
C13_PolicyResolution ==
    gov.op = "get_policy" =>
        LET row == RowInEffect(gov.user)
        IN  /\ gov.result = "Ok"
            /\ row = None => gov.ret = DefaultPolicy
            /\ (row # None /\ Unwrap(row) \in MalformedPolicyJson) =>
                  gov.ret = DefaultPolicy
            /\ (row # None /\ Unwrap(row) \notin MalformedPolicyJson) =>
                  to_string(gov.ret) = Unwrap(row)

\* the user's row does not parse while the global row does: the defaults are returned
C13_Witness ==
    /\ gov.op = "get_policy"
    /\ IsSome(gov.user)
    /\ policy_rows[Unwrap(gov.user)] # None
    /\ Unwrap(policy_rows[Unwrap(gov.user)]) \in MalformedPolicyJson
    /\ policy_rows["global"] = Some(StoredPolicy)
    /\ gov.result = "Ok"
    /\ gov.ret = DefaultPolicy


\* ---- SpecPre: maybe_preload called at any time through any handle of one
\* PredictivePreloader, loads that succeed or fail, time passing
InitPreSpec ==
    /\ InitClock /\ InitExt /\ InitMem /\ InitInf /\ InitGov /\ InitCls /\ InitRoute

NextPre ==
    \/ TickPre
    \/ \E b \in BOOLEAN : pre_set_enabled(b)
    \/ \E h \in Handles : maybe_preload(h)
    \/ \E h \in Handles : maybe_preload_decide(h)
    \/ \E h \in Handles : trigger_preload(h)
    \/ \E h \in Handles : preload_load_begin(h)
    \/ \E h \in Handles : preload_load(h)
    \/ \E h \in Handles : preload_store(h)

SpecPre == InitPreSpec /\ [][NextPre]_vars

\* the runtime runs every spawned task and its timers fire
SpecPreLive ==
    /\ SpecPre
    /\ WF_vars(TickPre)
    /\ \A h \in Handles : WF_vars(preload_load_begin(h))
    /\ \A h \in Handles : WF_vars(preload_load(h)) /\ WF_vars(preload_store(h))

(***************************************************************************)
(* C15: for every interleaving of concurrent maybe_preload calls on        *)
(* handles of one preloader, at most one preload task (load_model and the  *)
(* cooldown sleep) is in flight at any time, and the flag is set while it  *)
(* is.                                                                     *)
(***************************************************************************)
C15_OnePreloadInFlight ==
    /\ Cardinality(InFlight) <= 1
    /\ InFlight # {} => preload_scheduled

\* two calls got past the first check together: one has won the swap and its task is
\* loading, the other is about to swap and will find the flag set
C15_Witness ==
    \E h \in Handles, g \in Handles :
        /\ h # g
        /\ pre_task[h].pc = "load"
        /\ pre_call[g] = "trigger"
        /\ preload_scheduled

(***************************************************************************)
(* C16: once a preload has been triggered the in-flight flag is eventually *)
(* cleared again, after the load attempt and the cooldown, whether the     *)
(* load succeeds or fails; the flag never stays set forever.               *)
(***************************************************************************)
C16_FlagEventuallyCleared == preload_scheduled ~> ~preload_scheduled

\* a preload whose load failed has come and gone, and a later maybe_preload has fired
\* a new one
C16_Witness ==
    /\ Len(pre_log) = 1 /\ pre_log[1] = "err"
    /\ preload_scheduled
    /\ Cardinality(InFlight) = 1


\* ---- SpecLiveStats: live_stats called at any time by any thread through any handle
InitLiveStatsSpec ==
    /\ InitClock /\ InitExt /\ InitMem /\ InitInf /\ InitGov /\ InitCls /\ InitRoute

NextLiveStats ==
    \/ now + ClockStep <= MaxPollTime /\ Tick
    \/ \E t \in HwThreads, h \in HwHandles : live_stats(t, h)
    \/ \E t \in HwThreads : live_stats_poll(t)
    \/ \E t \in HwThreads : live_stats_store(t)

SpecLiveStats == InitLiveStatsSpec /\ [][NextLiveStats]_vars

(***************************************************************************)
(* C17: live_stats polls the operating system at most once per 5-second    *)
(* window, whatever the sequence and interleaving of calls and whichever   *)
(* handle they go through, the clones of the governor and the orchestrator *)
(* included: two polls are never less than 5 seconds apart.                *)
(***************************************************************************)
C17_OnePollPerWindow ==
    \A i \in 1..Len(poll_log), j \in 1..Len(poll_log) :
        i < j => poll_log[j] - poll_log[i] >= 5

(***************************************************************************)
(* SpecConv: interactive requests, one after the other, over a fixed list  *)
(* of installed models; each request meets its own set of unloadable files. *)
(***************************************************************************)
ConvDownloaded == {"m1", "m2", "m3"}
ConvInstalledLists ==
    {list_installed(dl, def) :
        dl \in SUBSET ConvDownloaded, def \in {None} \cup {Some(id) : id \in ConvDownloaded}}
ConvRequests == {None, Some(""), Some("m1"), Some("m3"), Some("m4"), Some("ghost")}
ConvTasks == {<<"chat", "balanced">>, <<"chat", "fast">>, <<"reasoning", "max_quality">>}

InitConvSpec ==
    /\ InitClock /\ InitMem /\ InitInf /\ InitGov /\ InitCls
    /\ InitHw /\ InitPre /\ InitLiveStats /\ InitConv /\ InitOrch /\ InitPol /\ InitEml
    /\ decision = None
    /\ routing_events = 0
    /\ route_audit = "none"
    /\ installed \in ConvInstalledLists

NextConv ==
    \E tq \in ConvTasks, mode \in SelectionModes, sel \in ConvRequests,
       fails \in SUBSET ConvDownloaded :
        send_message(tq[1], tq[2], mode, sel, fails)

SpecConv == InitConvSpec /\ [][NextConv]_vars

\* C18: whenever the load of the model chosen for a request failed and no automatic
\* fallback load succeeded, send_message returned the load error (alone or together
\* with the fallback's), in manual and in automatic mode, and generated with nothing.
C18_LoadFailureReturned ==
    IsSome(conv) /\ Unwrap(conv).load_failed
                 /\ (Unwrap(conv).fallback = None \/ Unwrap(conv).fallback_failed)
        => /\ Unwrap(conv).result = "Err"
           /\ Unwrap(conv).error \in {"load", "load_and_fallback"}
           /\ Unwrap(conv).generated_with = None

(***************************************************************************)
(* SpecInfLive: SpecInf with the scheduling the runtime gives.  The tokio  *)
(* semaphore hands a freed permit to its waiters in turn (strong fairness  *)
(* of each caller's acquire); a spawned closure gets to lock the slot and  *)
(* a finished one drops its permit.  Nothing bounds how long a decode      *)
(* takes: decode_end carries no fairness.                                  *)
(***************************************************************************)
SpecInfLive ==
    /\ SpecInf
    /\ \A c \in Callers : SF_vars(acquire_owned(c))
    /\ \A c \in Callers : WF_vars(decode_begin(c))
    /\ \A c \in Callers : WF_vars(release_permit(c))

\* C19: the acquisition of the permit is bounded in time: a generate_stream or
\* generate_with_tools call waiting at the acquire eventually leaves it (with the
\* permit or with a failure), even when the holder of the permit never finishes.
C19_AcquireReturns ==
    \A c \in Callers : (calls[c].pc = "acquire") ~> (calls[c].pc # "acquire")

(***************************************************************************)
(* C20: the AdaptiveMemoryManager never loads a model: no check_and_manage *)
(* returns MemoryAction::Loaded and total_loads stays 0 for every          *)
(* telemetry trace and history, and the step a monitor takes through       *)
(* maybe_load_model (memory and CPU both under the low thresholds) leaves  *)
(* the resident-model slot, the counters and the unload timestamp alone.   *)
(***************************************************************************)
C20_ManagerNeverLoads ==
    /\ [](/\ total_loads = 0
          /\ \A m \in Monitors : mon[m].ret # "Loaded")
    /\ [][\A m \in Monitors :
            (mon[m].pc = "load_lock" /\ mon'[m].pc # "load_lock") =>
                /\ mon'[m] = MonIdle("None")
                /\ UNCHANGED <<loaded, total_loads, total_unloads, last_unload_time,
                               unload_log, enabled, stats, mm_cfg, chunks, auto_unloaders>>]_vars

\* the manager has unloaded the model, more than 30 seconds have passed, the reading
\* is under both low thresholds and a monitor is inside maybe_load_model with nothing
\* resident
C20_Witness ==
    \E m \in Monitors :
        /\ mon[m].pc = "load_lock"
        /\ is_low_pressure(stats, mm_cfg)
        /\ total_unloads >= 1
        /\ IsSome(last_unload_time) /\ now - Unwrap(last_unload_time) >= 30
        /\ loaded = None

(***************************************************************************)
(* C21: preview is side-effect free: the step in which preview returns its *)
(* decision leaves the audit log, the stored policies, the active tier and *)
(* everything else of the router's and governor's state as it was, while   *)
(* the step of a route call whose audit insert is carried out differs from *)
(* it by exactly one appended audit row.                                   *)
(***************************************************************************)
IsPreviewDecision(d) == IsSome(d) /\ Unwrap(d).reason = <<"preview">>
IsRouteDecision(d)   == IsSome(d) /\ Unwrap(d).reason # <<"preview">>

C25_DecisionHasAuditRow ==
    IsRouteDecision(decision) => route_audit = "written"

(***************************************************************************)
(* SpecPlan: plan_request calls for every category, under every active     *)
(* tier, the default policy or a patched one, and telemetry readings of    *)
(* every pressure level.                                                   *)
(***************************************************************************)
MaxPlans == 1       \* plan_request calls in one run

PlanPolicyRows ==
    {[sc \in Scopes |-> None]} \cup
    {[sc \in Scopes |-> IF sc = "global" THEN None
                        ELSE Some(to_string(apply_patch(DefaultPolicy, patch)))] :
        patch \in Patches}
PlanStats ==
    {Stats(10, 4096, 8192), Stats(75, 2048, 65536), Stats(90, 12288, 16384),
     Stats(97, 4096, 8192)}
PlanExplicit == {<<None, None>>, <<Some("Code"), Some("FAST")>>, <<Some("bogus"), None>>}

InitPlanSpec ==
    /\ InitClock /\ InitExt /\ InitMem /\ InitInf /\ InitCls /\ InitRoute
    /\ policy_rows \in PlanPolicyRows
    /\ active_tier \in DeviceTiers
    /\ gov = [op |-> "none"]

NextPlan ==
    \/ plan_return
    \/ /\ Len(recent_classifications) < MaxPlans
       /\ \E u \in Users, category \in QueryCategory, ex \in PlanExplicit,
             allow_background_defer \in BOOLEAN, s \in PlanStats, s_budget \in PlanStats :
            plan_request(u, category, ex[1], ex[2], allow_background_defer, s, s_budget)

SpecPlan == InitPlanSpec /\ [][NextPlan]_vars

\* C22: for every plan_request the returned max_tokens_hint lies between 96 and the
\* interactive_max_tokens of the ServiceBudget computed for that request, and that
\* budget value is at least 96, so that the final clamp(96, budget) has min <= max.
C22_HintWithinBudget ==
    IsSome(plan) =>
        /\ Unwrap(plan).budget.interactive_max_tokens >= 96
        /\ Unwrap(plan).request.max_tokens_hint >= 96
        /\ Unwrap(plan).request.max_tokens_hint
              <= Unwrap(plan).budget.interactive_max_tokens

\* a Potato host under critical pressure: the scaled tier budget (64) is under the
\* floor, the budget is 96 and so is the hint
C22_Witness ==
    /\ IsSome(plan)
    /\ active_tier = "Potato"
    /\ Unwrap(plan).budget_pressure = "critical"
    /\ Unwrap(plan).budget.interactive_max_tokens = 96
    /\ Unwrap(plan).request.max_tokens_hint = 96

(***************************************************************************)
(* SpecRequest: one interactive request as send_message drives it: the     *)
(* orchestrator plans it, then the task router routes it with the planned  *)
(* task type and qos.  Each telemetry read returns what live_stats gives   *)
(* its handle at that moment.                                              *)
(***************************************************************************)
InitRequestSpec ==
    /\ InitClock /\ InitExt /\ InitMem /\ InitInf /\ InitCls
    /\ InitRoute!2 /\ InitRoute!3 /\ InitRoute!4
    /\ installed = list_installed({"m1", "m2"}, Some("m2"))
    /\ policy_rows \in PlanPolicyRows
    /\ active_tier \in {startup_tier(tier) : tier \in DeviceTiers}
    /\ gov = [op |-> "none"]

NextRequest ==
    \/ plan_return
    \/ /\ Len(recent_classifications) < MaxPlans
       /\ \E u \in Users, category \in QueryCategory, ex \in PlanExplicit,
             allow_background_defer \in BOOLEAN, s \in PlanStats, s_budget \in PlanStats :
            plan_request(u, category, ex[1], ex[2], allow_background_defer, s, s_budget)
    \/ /\ IsSome(plan)
       /\ decision = None
       /\ \E u \in Users, content \in RouteContents, s \in PlanStats, recorded \in BOOLEAN :
            route(u, content, Some(Unwrap(plan).request.task_type),
                  Some(Unwrap(plan).request.qos), Unwrap(plan).request.defer_background,
                  s, recorded)

SpecRequest == InitRequestSpec /\ [][NextRequest]_vars

\* C27: within one request the pressure_level of the OrchestratedRequest equals the
\* pressure level compute_budget scaled that request's ServiceBudget with, and equals
\* the pressure_level of the RoutingDecision produced for the request.
C27_SamePressureSignal ==
    IsSome(plan) =>
        /\ Unwrap(plan).budget_pressure = Unwrap(plan).request.pressure_level
        /\ IsRouteDecision(decision) =>
              Unwrap(decision).pressure_level = Unwrap(plan).request.pressure_level

(***************************************************************************)
(* C23: the priority ladder of select_model, for every non-empty installed *)
(* list: the marked default for balanced/chat; else, for qos fast, the     *)
(* first fast-tier model if there is one; else, for qos max_quality or     *)
(* task reasoning, a non-fast-tier model of the largest context length if  *)
(* there is one; else the marked default, or the first installed model     *)
(* when none is marked.                                                    *)
(***************************************************************************)
DefaultAt == {i \in 1..Len(installed) : installed[i].is_default = 1}
FastAt    == {i \in 1..Len(installed) : installed[i].performance_tier = "fast"}
NotFastAt == {i \in 1..Len(installed) : installed[i].performance_tier # "fast"}
FirstOf(S) == CHOOSE i \in S : \A j \in S : i <= j

C23_PriorityLadder ==
    (IsSome(decision) /\ installed # <<>>) =>
        LET d   == Unwrap(decision)
            sel == d.selected_model_id
        IN  IF d.qos = "balanced" /\ d.task_type = "chat" /\ DefaultAt # {}
            THEN sel = Some(installed[FirstOf(DefaultAt)].id)
            ELSE IF d.qos = "fast" /\ FastAt # {}
            THEN sel = Some(installed[FirstOf(FastAt)].id)
            ELSE IF (d.qos = "max_quality" \/ d.task_type = "reasoning") /\ NotFastAt # {}
            THEN \E i \in NotFastAt :
                    /\ sel = Some(installed[i].id)
                    /\ \A j \in NotFastAt :
                          installed[j].context_length <= installed[i].context_length
            ELSE IF DefaultAt # {}
            THEN sel = Some(installed[FirstOf(DefaultAt)].id)
            ELSE sel = Some(installed[1].id)

\* a max_quality decision with a default marked and fast models installed: the model
\* selected is neither the default nor the first of the list
C23_Witness ==
    /\ IsSome(decision)
    /\ Unwrap(decision).qos = "max_quality"
    /\ DefaultAt # {} /\ FastAt # {}
    /\ Unwrap(decision).selected_model_id # Some(installed[1].id)
    /\ \E i \in NotFastAt : Unwrap(decision).selected_model_id = Some(installed[i].id)

(***************************************************************************)
(* SpecPolicyRace: concurrent set_policy calls, one per writer, on rows    *)
(* that exist (the global row and the user's row, both at version 1 with   *)
(* the default policy).  Each patch sets one field.                        *)
(***************************************************************************)
FieldPatches ==
    { Patch(Some(60), None, None, None, None, None, None, None),
      Patch(None, None, Some(200), None, None, None, None, None),
      Patch(None, None, None, None, None, None, Some(20), None) }

PatchedFields(patch) == {f \in DOMAIN patch : IsSome(patch[f])}

InitPolicyRaceSpec ==
    /\ InitClock /\ InitMem /\ InitInf /\ InitCls /\ InitRoute
    /\ InitHw /\ InitPre /\ InitLiveStats /\ InitConv /\ InitOrch /\ InitEml
    /\ policy_rows = [sc \in Scopes |-> Some(to_string(DefaultPolicy))]
    /\ policy_version = [sc \in Scopes |-> 1]
    /\ sp = [w \in Writers |-> SpIdle]
    /\ InitGov!2 /\ InitGov!3

NextPolicyRace ==
    \/ \E w \in Writers, user \in UserArgs, patch \in FieldPatches :
          set_policy_read(w, user, patch)
    \/ \E w \in Writers : set_policy_write(w)

SpecPolicyRace == InitPolicyRaceSpec /\ [][NextPolicyRace]_vars

DoneOn(sc) == {w \in Writers : sp[w].pc = "done" /\ ScopeOf(sp[w].user) = sc}

\* C24: for every interleaving of set_policy calls on one row that patch different
\* fields, the stored policy reflects every applied patch (no update is lost) and the
\* row's version has grown by one per applied update.
C24_NoLostUpdate ==
    \A sc \in Scopes :
        /\ policy_version[sc] = 1 + Cardinality(DoneOn(sc))
        /\ (\A v, w \in DoneOn(sc) :
               v # w => PatchedFields(sp[v].patch) \cap PatchedFields(sp[w].patch) = {})
           => \A w \in DoneOn(sc) : \A f \in PatchedFields(sp[w].patch) :
                 /\ IsSome(from_str(Unwrap(policy_rows[sc])))
                 /\ Unwrap(from_str(Unwrap(policy_rows[sc])))[f] = sp[w].next[f]

(***************************************************************************)
(* SpecHistory: classify calls on a classifier whose history is nearly     *)
(* full.  The records of the starting history differ from their            *)
(* neighbours, so that their order can be told.  store runs under the      *)
(* write lock of recent_classifications: a reader sees the history before  *)
(* or after a whole store.                                                 *)
(***************************************************************************)
CategoryCycle == <<"simple", "code", "math", "creative", "analytical", "medium",
                   "summarization">>
History(n) == [i \in 1..n |-> ClassificationRecord(CategoryCycle[(i % 7) + 1], 0)]

InitHistorySpec ==
    /\ InitClock /\ InitExt /\ InitMem /\ InitInf /\ InitGov /\ InitRoute
    /\ recent_classifications \in {History(n) : n \in {254, 255, 256}}
    /\ InitCls!2

HistoryQueries ==
    {Query(<<"hello">>, 0), Query(<<"DEBUG", "a+b=c-d">>, 0), Query(<<"poem">>, 40),
     Query(<<>>, 90)}

NextHistory == \E query \in HistoryQueries : classify(query)

SpecHistory == InitHistorySpec /\ [][NextHistory]_vars

\* C26: the history a reader observes holds at most 256 records; an append to a
\* history of fewer than 256 records adds the record at the end, and the append that
\* would make it 257 leaves exactly the 192 most recent records (the new one last),
\* in arrival order.
C26_HistoryBounded ==
    /\ [](Len(recent_classifications) <= 256)
    /\ [][recent_classifications' # recent_classifications =>
            LET before == recent_classifications
                after  == recent_classifications'
                record == after[Len(after)]
            IN  IF Len(before) < 256
                THEN after = Append(before, record)
                ELSE /\ Len(after) = 192
                     /\ \A i \in 1..191 : after[i] = before[Len(before) - 191 + i]]_vars

\* the overflow has happened: the history is back at 192 records after a call
C26_Witness ==
    /\ cls.n >= 1
    /\ Len(recent_classifications) = 192


(***************************************************************************)
(* SpecStream: generate_stream / generate_with_tools calls chunk by chunk, *)
(* with loads and unloads arriving from outside at any time and receivers  *)
(* that keep consuming.  The semaphore hands a freed permit to its waiters *)
(* in turn, a spawned closure gets to lock the slot, the decode loop of    *)
(* generate_with_llama is bounded by max_tokens and each of its steps      *)
(* returns, and a closure whose generation has returned runs to its end.   *)
(***************************************************************************)
NextStream ==
    \/ \E path \in ModelPaths : LoadModel(path)
    \/ UnloadModel
    \/ \E c \in Callers : generate_stream(c)
    \/ \E c \in Callers : generate_with_tools(c)
    \/ \E c \in Callers : acquire_owned(c)
    \/ \E c \in Callers : decode_begin(c)
    \/ \E c \in Callers : send_token(c)
    \/ \E c \in Callers : decode_end(c)
    \/ \E c \in Callers : release_permit(c)

SpecStream ==
    /\ InitInfSpec /\ [][NextStream]_vars
    /\ \A c \in Callers : SF_vars(acquire_owned(c))
    /\ \A c \in Callers : WF_vars(decode_begin(c))
    /\ \A c \in Callers : WF_vars(decode_end(c))
    /\ \A c \in Callers : WF_vars(release_permit(c))

\* the chunks of a stream that has ended: pieces, then the error chunk if the
\* generation failed, then the one chunk with done = true
EndedStream(seq) ==
    /\ Len(seq) >= 1
    /\ seq[Len(seq)] = "done"
    /\ \A i \in 1..(Len(seq) - 1) :
          /\ seq[i] # "done"
          /\ seq[i] = "error" => i = Len(seq) - 1

\* a stream has been returned with Ok and its closure has not ended yet
StreamOpen(c) == calls[c].kind = "stream" /\ calls[c].pc # "idle"

\* C28: every stream generate_stream returned with Ok eventually ends, and has then
\* yielded exactly one chunk with done = true, as its last chunk, after the pieces and
\* (when the decode failed or found no model) one error chunk; no chunk with
\* done = true is yielded before the closure ends.
C28_StreamEndsWithDone ==
    /\ [](\A c \in Callers : StreamOpen(c) => \A i \in 1..Len(chunks[c]) : chunks[c][i] = "token")
    /\ \A c \in Callers : StreamOpen(c) ~> (calls[c].pc = "idle" /\ EndedStream(chunks[c]))

\* a stream whose decode found the slot emptied after the initial check has ended
\* with the error chunk and the done chunk, and another has ended after its pieces
C28_Witness ==
    /\ chunks[1] = <<"error", "done">>
    /\ chunks[2] = <<"token", "token", "done">>
    /\ calls[1].pc = "idle" /\ calls[2].pc = "idle"

(***************************************************************************)
(* SpecSwap: decodes against the slot while unload_model is called from    *)
(* outside, models are loaded in either performance mode, and the          *)
(* auto-unloader loops sleep and wake.                                     *)
(***************************************************************************)
NextSwap ==
    \/ auto_unloader_sleep
    \/ auto_unloader_wake
    \/ \E path \in ModelPaths : LoadModel(path)
    \/ \E path \in ModelPaths : LoadModelMultitasking(path)
    \/ UnloadModel
    \/ \E c \in Callers : generate_stream(c)
    \/ \E c \in Callers : generate_with_tools(c)
    \/ \E c \in Callers : acquire_owned(c)
    \/ \E c \in Callers : decode_begin(c)
    \/ \E c \in Callers : decode_end(c)
    \/ \E c \in Callers : release_permit(c)

SpecSwap == InitInfSpec /\ [][NextSwap]_vars

\* C29: while a decode is in progress the resident-model slot is not written: no
\* unload_model, no auto-unloader wake-up and no swap of load_model takes effect
\* before the running decode has finished.
C29_SlotStableDuringDecode ==
    [][Decoding # {} => loaded' = loaded]_vars

\* a decode is running on a model whose last use is more than 300 s back, with an
\* auto-unloader loop alive
C29_Witness ==
    /\ Decoding # {}
    /\ auto_unloaders > 0
    /\ IsSome(loaded)
    /\ now - Unwrap(loaded).last_used_secs > idle_timeout_secs

(***************************************************************************)
(* SpecEnsure: ensure_model_loaded calls, one after the other, with the    *)
(* preload tasks they spawn running beside them, the clock moving and the  *)
(* model unloaded from outside at any time.                                *)
(***************************************************************************)
NextEnsure ==
    \/ TickPre
    \/ UnloadModel
    \/ \E path \in ModelPaths : eml_begin(path)
    \/ eml_maybe_preload
    \/ eml_load_begin
    \/ eml_load_end
    \/ eml_return
    \/ \E h \in Handles : preload_load_begin(h)
    \/ \E h \in Handles : preload_load(h)
    \/ \E h \in Handles : preload_store(h)

SpecEnsure == InitPreSpec /\ [][NextEnsure]_vars

\* C30: while the load_model an ensure_model_loaded call has entered itself is
\* executing, the preload task that call has spawned is not executing load_model (on
\* the same path).
C30_NoOverlappingLoads ==
    ~(/\ eml.pc = "loading"
      /\ eml.spawned # 0
      /\ pre_task[eml.spawned].pc = "loading")
====
